---- MODULE Spec2Model ----
(***************************************************************************)
(* es-dumper: bulk export (backup) and bulk import (restore) of the        *)
(* collections of a search cluster.                                        *)
(*                                                                         *)
(* Nine specifications share this module:                                  *)
(*   Spec          the orchestrators run_backup / run_restore: the rayon   *)
(*                 workers, the chunks, the three mutexes, the counters;   *)
(*   SpecExport    one export task, backup_index with backup_data          *)
(*                 statement by statement, against a cluster that pages a  *)
(*                 snapshot;                                               *)
(*   SpecImport    one import task, restore_data statement by statement;   *)
(*   SpecBody      the bulk request body restore_data builds of a chunk;   *)
(*   SpecScroll    the page size backup_data asks the cluster for;         *)
(*   SpecDisc      the selection of collections, get_indices_to_backup     *)
(*                 and get_indices_to_restore;                             *)
(*   SpecRoundTrip an export task followed by the import of its file;      *)
(*   SpecLive      Spec under a fair scheduler;                            *)
(*   SpecLog       tasks that append lines to the shared log through log.  *)
(* Each specification leaves the variables of the others at rest.          *)
(***************************************************************************)
EXTENDS Integers, Sequences, FiniteSets, TLC

(***************************************************************************)
(* Bounds of the model.                                                    *)
(***************************************************************************)
MaxIndices == 3
MaxParallel == 2
MaxCpus == 2
MaxDocs == 7
MaxPage == 2
MaxBatch == 7
MaxChunk == 3
MaxScrollSize == 10000
MaxSizeMb == 2
MaxThresholdMb == 1
MaxLogTasks == 2
MaxLogCalls == 3

VARIABLES
    \* ---- orchestrator (run_backup / run_restore) ----
    operation,        \* "backup" | "restore" ("none": no orchestrator runs)
    indices,          \* number of selected collections (the sorted list 1..indices)
    max_parallel_indices,
    cpus,             \* threads of rayon's global pool (the machine's logical CPUs)
    chunkTaken,       \* chunk -> a thread has taken it
    wChunk,           \* thread -> its current chunk (0: none)
    wPos,             \* thread -> position in its chunk (1-based)
    wpc,              \* thread -> position in the loop body
    active_indices,   \* the Mutex<i32> of run_backup
    completed_indices,\* the Mutex<i32> of both orchestrators
    pb_main,          \* position of the aggregate progress bar
    activeLock,       \* owner of active_indices' mutex (0: free)
    logLock,          \* owner of the log file's mutex (0: free)
    completedLock,    \* owner of completed_indices' mutex (0: free)
    started,          \* collection -> number of times its task was started
    taskResult,       \* collection -> "none" | "running" | "ok" | "err"
    dataFiles,        \* path -> "absent" | "partial" | "complete"
    cursors,          \* collection -> "none" | "released" | "leaked"
    restored,         \* collection -> "none" | "partial" | "full"
    runReturned,      \* the orchestrator has returned
    runResult,        \* "none" | "ok" | "log_err": what it returned
    \* ---- one export task (backup_index / backup_data) ----
    doc_count,        \* the count the cluster reports at task start
    srvDocs,          \* documents of the snapshot the cursor pages through
    scroll_size,      \* effective_scroll_size, the page size requested
    compression,      \* the build has the "compression" feature
    epc,              \* position in backup_index / backup_data
    mappingStatus,    \* status of the mapping response ("none": no response)
    scroll_id,        \* the task's current cursor token (0: none yet)
    srvToken,         \* the token the cluster issued last (0: none)
    srvPos,           \* documents of the snapshot delivered so far
    srvCursor,        \* "none" | "open" | "released"
    response,         \* the response being read: [token, page]
    hits,             \* the first page
    batch_hits,       \* the page of the current continuation
    hitIdx,           \* position of the `for hit in ..` loop
    is_first,
    total_docs,
    fileExists,       \* a data file is present at the collection's path
    fileCreated,      \* this task has run File::create on it
    fileContent,      \* what the data file holds, as a sequence of tokens
    sent,             \* the cursor requests issued, in order
    pages,            \* lengths of the pages received, in order
    expResult,        \* "running" | "ok" | "err": what the task returned
    expErr,           \* which statement returned the error
    pb_len,           \* pb_index: length
    pb_pos,           \* pb_index: position
    \* ---- one import task (restore_data) ----
    srcFiles,         \* "plain" | "gz" | "both" | "none": the data files present
    fileDocs,         \* number of documents the data file holds
    dataFile,         \* the data file's content, as a sequence of tokens
    bulk_batch_size,
    ipc,              \* position in restore_data
    documents,        \* the parsed array
    batch_num,        \* index of the current chunk (0-based, as enumerate())
    bulkSent,         \* the bulk requests sent, in order
    bulkResp,         \* the response being read
    cluster,          \* documents the target collection has accepted
    impResult,        \* "running" | "ok" | "err"
    impErr,           \* the error returned
    errLog,           \* the "First few errors" lines logged, one list per line
    ipb_len,          \* pb_index: length
    ipb_pos,          \* pb_index: position
    \* ---- the body of one bulk request (restore_data, lines 181-197) ----
    chunk,            \* the documents of the batch, as parsed from the file
    doc_idx,          \* position of `for doc in chunk`
    bulk_body,        \* the lines pushed to bulk_body so far
    bpc,              \* "idle" | "build" | "built"
    \* ---- the page size of the open-cursor request (backup_data, 183-211) ----
    es_version,       \* the detected version string, as its characters
    cfg_scroll_size,  \* config.scroll_size
    effective_scroll_size, \* 0: not computed yet
    open_size,        \* "size" of the open-cursor request (0: not sent)
    spc,              \* "idle" | "compute" | "request" | "sent"
    \* ---- selection of the collections (run_backup 19-50, fetch_indices,
    \*      run_restore 20-56) ----
    dop,              \* "backup" | "restore" ("none": no selection runs)
    specific_index,   \* the name given on the command line (<<>>: None)
    skip_indices,     \* config.skip_indices
    max_index_size_mb,\* config.max_index_size_mb (-1: None)
    present,          \* the collections of the cluster / the backup directories
    dVersion,         \* "none" | "plain" | "8.3": the detected version
    listing,          \* the kind of response _cat/indices gave ("none": not asked)
    nameless,         \* listed collections whose entry has no "index" string
    entries,          \* the entries of the listing, in the order received
    result,           \* `result` of fetch_indices
    retainIdx,        \* position of result.retain
    retained,           \* the elements retain has kept so far
    sizeOf,           \* name -> what its size lookup gave ("none": not asked)
    selected,         \* `indices` of run_backup / run_restore
    dpc,              \* position in the selection
    dResult,          \* "running" | "ok" | "err": what the run returned so far
    dErr,             \* which statement returned the error
    \* ---- the shared log (utils.rs log, main.rs 68-70) ----
    logMutex,         \* the Mutex<File>: the task that holds it (0: free)
    logContent,       \* the log file: the pieces written, in file order
    lpc,              \* task -> its position inside log()
    lcalls,           \* task -> number of log calls it has begun
    lResults          \* task -> the results its log calls returned, in order

orchVars == <<operation, indices, max_parallel_indices, cpus, chunkTaken,
              wChunk, wPos, wpc, active_indices, completed_indices, pb_main,
              activeLock, logLock, completedLock, started, taskResult,
              dataFiles, cursors, restored, runReturned, runResult>>
exportVars == <<doc_count, srvDocs, scroll_size, compression, epc,
                mappingStatus, scroll_id, srvToken, srvPos, srvCursor,
                response, hits, batch_hits, hitIdx, is_first, total_docs,
                fileExists, fileCreated, fileContent, sent, pages, expResult,
                expErr, pb_len, pb_pos>>
importVars == <<srcFiles, fileDocs, dataFile, bulk_batch_size, ipc,
                documents, batch_num, bulkSent, bulkResp, cluster, impResult,
                impErr, errLog, ipb_len, ipb_pos>>
bodyVars == <<chunk, doc_idx, bulk_body, bpc>>
scrollVars == <<es_version, cfg_scroll_size, effective_scroll_size, open_size, spc>>
discVars == <<dop, specific_index, skip_indices, max_index_size_mb, present,
              dVersion, listing, nameless, entries, result, retainIdx, retained,
              sizeOf, selected, dpc, dResult, dErr>>
logVars == <<logMutex, logContent, lpc, lcalls, lResults>>
vars == <<orchVars, exportVars, importVars, bodyVars, scrollVars, discVars,
          logVars>>

(***************************************************************************)
(* Helpers.                                                                *)
(***************************************************************************)
Max(a, b) == IF a >= b THEN a ELSE b
Min(a, b) == IF a <= b THEN a ELSE b
CeilDiv(a, b) == (a + b - 1) \div b

(***************************************************************************)
(*                 The orchestrators: run_backup, run_restore              *)
(***************************************************************************)
MaxThreads == Max(MaxParallel, MaxCpus)
Threads == 1..MaxThreads
Collections == 1..MaxIndices
Chunks == 1..MaxIndices

(***************************************************************************)
(* indices.par_chunks(config.max_parallel_indices): chunk k holds the      *)
(* collections (k-1)*M+1 .. min(k*M, n) of the list, in list order.        *)
(***************************************************************************)
NumChunks == CeilDiv(indices, max_parallel_indices)
ChunkLen(k) == Min(k * max_parallel_indices, indices) - (k - 1) * max_parallel_indices
\* Chunks that share their border element.
ChunkItemOverlapping(k, i) ==
    (k - 1) * max_parallel_indices + i - (IF k > 1 THEN 1 ELSE 0)
ChunkItem(k, i) == (k - 1) * max_parallel_indices + i

(***************************************************************************)
(* The threads that run the chunks.  run_backup builds its own pool with   *)
(* num_threads(max_parallel_indices) and installs the loop in it;          *)
(* run_restore calls par_chunks outside any pool, so its loop runs on      *)
(* rayon's global pool, which has one thread per logical CPU.              *)
(***************************************************************************)
BackupPoolGlobal == cpus
BackupPoolThreads == max_parallel_indices
RestorePoolThreads == cpus
PoolThreads == IF operation = "backup" THEN BackupPoolThreads ELSE RestorePoolThreads

(***************************************************************************)
(* index_dir.join(format!("{}_data.json", index)): one path per name.      *)
(***************************************************************************)
DataPath(c) == c

\* The collection a thread is at: `index` of `for index in chunk`.
Cur(w) == ChunkItem(wChunk[w], wPos[w])

(***************************************************************************)
(* What one call of backup_data leaves behind, as the orchestrator sees    *)
(* it: the result, what became of the data file ("keep": File::create was  *)
(* not reached) and of the cursor.  SpecExport derives these outcomes      *)
(* statement by statement.                                                 *)
(***************************************************************************)
BackupDataOutcomes ==
    { [res |-> "ok",  file |-> "complete", cursor |-> "released"],
      [res |-> "ok",  file |-> "keep",     cursor |-> "none"],
      [res |-> "err", file |-> "keep",     cursor |-> "none"],
      [res |-> "err", file |-> "partial",  cursor |-> "leaked"] }

(***************************************************************************)
(* What one call of restore_data leaves behind in the target collection.   *)
(***************************************************************************)
RestoreDataOutcomes ==
    { [res |-> "ok",  cluster |-> "full"],
      [res |-> "ok",  cluster |-> "none"],
      [res |-> "err", cluster |-> "none"],
      [res |-> "err", cluster |-> "partial"] }

\* No orchestrator runs (the state of these variables in SpecExport and
\* SpecImport).
OrchIdle ==
    /\ operation = "none"
    /\ indices = 0
    /\ max_parallel_indices = 1
    /\ cpus = 1
    /\ chunkTaken = [k \in Chunks |-> FALSE]
    /\ wChunk = [w \in Threads |-> 0]
    /\ wPos = [w \in Threads |-> 0]
    /\ wpc = [w \in Threads |-> "idle"]
    /\ active_indices = 0
    /\ completed_indices = 0
    /\ pb_main = 0
    /\ activeLock = 0
    /\ logLock = 0
    /\ completedLock = 0
    /\ started = [c \in Collections |-> 0]
    /\ taskResult = [c \in Collections |-> "none"]
    /\ dataFiles = [p \in Collections |-> "absent"]
    /\ cursors = [c \in Collections |-> "none"]
    /\ restored = [c \in Collections |-> "none"]
    /\ runReturned = FALSE
    /\ runResult = "none"

\* No export task runs.
ExportIdle ==
    /\ doc_count = 0
    /\ srvDocs = 0
    /\ scroll_size = 1
    /\ compression = FALSE
    /\ epc = "idle"
    /\ mappingStatus = "none"
    /\ scroll_id = 0
    /\ srvToken = 0
    /\ srvPos = 0
    /\ srvCursor = "none"
    /\ response = [token |-> 0, page |-> <<>>]
    /\ hits = <<>>
    /\ batch_hits = <<>>
    /\ hitIdx = 0
    /\ is_first = TRUE
    /\ total_docs = 0
    /\ fileExists = FALSE
    /\ fileCreated = FALSE
    /\ fileContent = <<>>
    /\ sent = <<>>
    /\ pages = <<>>
    /\ expResult = "running"
    /\ expErr = "none"
    /\ pb_len = 0
    /\ pb_pos = 0

\* No import task runs.
ImportIdle ==
    /\ srcFiles = "none"
    /\ fileDocs = 0
    /\ dataFile = <<>>
    /\ bulk_batch_size = 1
    /\ ipc = "idle"
    /\ documents = <<>>
    /\ batch_num = 0
    /\ bulkSent = <<>>
    /\ bulkResp = "none"
    /\ cluster = {}
    /\ impResult = "running"
    /\ impErr = [kind |-> "none"]
    /\ errLog = <<>>
    /\ ipb_len = 0
    /\ ipb_pos = 0

\* No request body is being built.
BodyIdle ==
    /\ chunk = <<>>
    /\ doc_idx = 0
    /\ bulk_body = <<>>
    /\ bpc = "idle"

\* No page size is being computed.
ScrollIdle ==
    /\ es_version = <<>>
    /\ cfg_scroll_size = 0
    /\ effective_scroll_size = 0
    /\ open_size = 0
    /\ spc = "idle"

\* The names a collection can have here: "a", "l" and ".s".
Alpha == <<"a">>
Logs == <<"l">>
System == <<".", "s">>
Names == {Alpha, Logs, System}

\* No selection runs.
DiscIdle ==
    /\ dop = "none"
    /\ specific_index = <<>>
    /\ skip_indices = {}
    /\ max_index_size_mb = -1
    /\ present = {}
    /\ dVersion = "none"
    /\ listing = "none"
    /\ nameless = {}
    /\ entries = <<>>
    /\ result = <<>>
    /\ retainIdx = 0
    /\ retained = <<>>
    /\ sizeOf = [n \in Names |-> "none"]
    /\ selected = <<>>
    /\ dpc = "idle"
    /\ dResult = "running"
    /\ dErr = "none"

\* The tasks that write to the log.
LogTasks == 1..MaxLogTasks

\* Nothing is written to the log.
LogIdle ==
    /\ logMutex = 0
    /\ logContent = <<>>
    /\ lpc = [t \in LogTasks |-> "idle"]
    /\ lcalls = [t \in LogTasks |-> 0]
    /\ lResults = [t \in LogTasks |-> <<>>]

\* Everything but the orchestrators, the export task and the import task
\* is at rest.
RestIdle ==
    /\ BodyIdle
    /\ ScrollIdle
    /\ DiscIdle
    /\ LogIdle

(***************************************************************************)
(* The state when the pool is about to run the chunks: the collection      *)
(* list is selected, the counters are new.                                 *)
(***************************************************************************)
Init ==
    /\ operation \in {"backup", "restore"}
    /\ indices \in 1..MaxIndices
    /\ max_parallel_indices \in 1..MaxParallel
    /\ cpus \in 1..MaxCpus
    /\ chunkTaken = [k \in Chunks |-> FALSE]
    /\ wChunk = [w \in Threads |-> 0]
    /\ wPos = [w \in Threads |-> 0]
    /\ wpc = [w \in Threads |-> "idle"]
    /\ active_indices = 0
    /\ completed_indices = 0
    /\ pb_main = 0
    /\ activeLock = 0
    /\ logLock = 0
    /\ completedLock = 0
    /\ started = [c \in Collections |-> 0]
    /\ taskResult = [c \in Collections |-> "none"]
    /\ dataFiles = [p \in Collections |-> "absent"]
    /\ cursors = [c \in Collections |-> "none"]
    /\ restored = [c \in Collections |-> "none"]
    /\ runReturned = FALSE
    /\ runResult = "none"
    /\ ExportIdle
    /\ ImportIdle
    /\ RestIdle

\* A pool thread takes a chunk nobody has taken (par_chunks(..).for_each).
\* Idle threads hold no state and are interchangeable: the lowest one takes it.
ClaimChunk(w, k) ==
    /\ ~runReturned
    /\ w <= PoolThreads
    /\ wpc[w] = "idle"
    /\ \A v \in 1..(w - 1) : wpc[v] # "idle"
    /\ k <= NumChunks
    /\ ~chunkTaken[k]
    /\ chunkTaken' = [chunkTaken EXCEPT ![k] = TRUE]
    /\ wChunk' = [wChunk EXCEPT ![w] = k]
    /\ wPos' = [wPos EXCEPT ![w] = 1]
    /\ wpc' = [wpc EXCEPT ![w] = "next"]
    /\ UNCHANGED <<operation, indices, max_parallel_indices, cpus,
                   active_indices, completed_indices, pb_main, activeLock,
                   logLock, completedLock, started, taskResult, dataFiles,
                   cursors, restored, runReturned, runResult, exportVars,
                   importVars, bodyVars, scrollVars, discVars, logVars>>

\* `for index in chunk` is exhausted: the closure returns.
ChunkDone(w) ==
    /\ wpc[w] = "next"
    /\ wPos[w] > ChunkLen(wChunk[w])
    /\ wpc' = [wpc EXCEPT ![w] = "idle"]
    /\ wChunk' = [wChunk EXCEPT ![w] = 0]
    /\ wPos' = [wPos EXCEPT ![w] = 0]
    /\ UNCHANGED <<operation, indices, max_parallel_indices, cpus,
                   chunkTaken, active_indices, completed_indices, pb_main,
                   activeLock, logLock, completedLock, started, taskResult,
                   dataFiles, cursors, restored, runReturned, runResult,
                   exportVars, importVars, bodyVars, scrollVars, discVars,
                   logVars>>

\* backup.rs 74-75: active_indices.lock(); *active += 1.
LockActive(w) ==
    /\ operation = "backup"
    /\ wpc[w] = "next"
    /\ wPos[w] <= ChunkLen(wChunk[w])
    /\ activeLock = 0
    /\ activeLock' = w
    /\ active_indices' = active_indices + 1
    /\ wpc' = [wpc EXCEPT ![w] = "log_start"]
    /\ UNCHANGED <<operation, indices, max_parallel_indices, cpus,
                   chunkTaken, wChunk, wPos, completed_indices, pb_main,
                   logLock, completedLock, started, taskResult, dataFiles,
                   cursors, restored, runReturned, runResult, exportVars,
                   importVars, bodyVars, scrollVars, discVars, logVars>>

LogPcs == {"log_start", "log_error", "log_end"}
LogWritePc(pc) ==
    CASE pc = "log_start" -> "logw_start"
      [] pc = "log_error" -> "logw_error"
      [] pc = "log_end" -> "logw_end"

\* utils.rs 19: log_file.lock() inside log().
LogLock(w) ==
    /\ wpc[w] \in LogPcs
    /\ logLock = 0
    /\ logLock' = w
    /\ wpc' = [wpc EXCEPT ![w] = LogWritePc(wpc[w])]
    /\ UNCHANGED <<operation, indices, max_parallel_indices, cpus,
                   chunkTaken, wChunk, wPos, active_indices,
                   completed_indices, pb_main, activeLock, completedLock,
                   started, taskResult, dataFiles, cursors, restored,
                   runReturned, runResult, exportVars, importVars, bodyVars,
                   scrollVars, discVars, logVars>>

\* A guard `active` that stays alive over the task.
ActiveLockKept(w) == w
\* backup.rs 88: drop(active) frees the mutex of active_indices.
ActiveLockAfterDrop(w) == 0

\* backup.rs 77-101: the "Starting backup" line is written and flushed (a
\* failure is only printed), log() returns and frees the log mutex,
\* drop(active) frees the counter's mutex, and backup_index is called.
LogStartWrite(w) ==
    /\ wpc[w] = "logw_start"
    /\ logLock = w
    /\ logLock' = 0
    /\ activeLock' = ActiveLockAfterDrop(w)
    /\ started' = [started EXCEPT ![Cur(w)] = @ + 1]
    /\ taskResult' = [taskResult EXCEPT ![Cur(w)] = "running"]
    /\ wpc' = [wpc EXCEPT ![w] = "task_map"]
    /\ UNCHANGED <<operation, indices, max_parallel_indices, cpus,
                   chunkTaken, wChunk, wPos, active_indices,
                   completed_indices, pb_main, completedLock, dataFiles,
                   cursors, restored, runReturned, runResult, exportVars,
                   importVars, bodyVars, scrollVars, discVars, logVars>>

\* Where the loop body goes when the task of its collection returned Err:
\* `if let Err(e) = result { log(..); abandon }`, and the loop goes on.
AfterTaskErrorLeaveLoop(w) == "idle"
AfterTaskError(w) == "log_error"

\* backup.rs 148-153: backup_index up to and including backup_mapping.  The
\* steps of a task write their log lines through log (utils.rs 19), which
\* waits for the log mutex and frees it before it returns: a task's step
\* ends when the mutex is free.
BackupMapping(w) ==
    /\ wpc[w] = "task_map"
    /\ operation = "backup"
    /\ logLock = 0
    /\ \E ok \in BOOLEAN :
         IF ok
         THEN /\ wpc' = [wpc EXCEPT ![w] = "task_data"]
              /\ taskResult' = taskResult
         ELSE /\ wpc' = [wpc EXCEPT ![w] = AfterTaskError(w)]
              /\ taskResult' = [taskResult EXCEPT ![Cur(w)] = "err"]
    /\ UNCHANGED <<operation, indices, max_parallel_indices, cpus,
                   chunkTaken, wChunk, wPos, active_indices,
                   completed_indices, pb_main, activeLock, logLock,
                   completedLock, started, dataFiles, cursors, restored,
                   runReturned, runResult, exportVars, importVars, bodyVars,
                   scrollVars, discVars, logVars>>

\* backup.rs 154-156: backup_data, then the closing log line of backup_index.
BackupData(w) ==
    /\ wpc[w] = "task_data"
    /\ operation = "backup"
    /\ logLock = 0
    /\ \E o \in BackupDataOutcomes :
         /\ taskResult' = [taskResult EXCEPT ![Cur(w)] = o.res]
         /\ dataFiles' = IF o.file = "keep" THEN dataFiles
                         ELSE [dataFiles EXCEPT ![DataPath(Cur(w))] = o.file]
         /\ cursors' = [cursors EXCEPT ![Cur(w)] = o.cursor]
         /\ wpc' = [wpc EXCEPT ![w] =
                      IF o.res = "ok" THEN "lock_end" ELSE AfterTaskError(w)]
    /\ UNCHANGED <<operation, indices, max_parallel_indices, cpus,
                   chunkTaken, wChunk, wPos, active_indices,
                   completed_indices, pb_main, activeLock, logLock,
                   completedLock, started, restored, runReturned, runResult,
                   exportVars, importVars, bodyVars, scrollVars, discVars,
                   logVars>>

\* A loop body that ends after the error line, counting nothing.
AfterErrorLineEndIteration == "iter_end"
\* backup.rs 105-109 / restore.rs 90-94: after the error branch the loop body
\* goes on with what follows the if/else, as after a success.
AfterErrorLine == IF operation = "backup" THEN "lock_end" ELSE "lock_completed"

\* backup.rs 103-104 / restore.rs 88-89: the error line is written, the bar
\* is abandoned.
LogErrorWrite(w) ==
    /\ wpc[w] = "logw_error"
    /\ logLock = w
    /\ logLock' = 0
    /\ wpc' = [wpc EXCEPT ![w] = AfterErrorLine]
    /\ UNCHANGED <<operation, indices, max_parallel_indices, cpus,
                   chunkTaken, wChunk, wPos, active_indices,
                   completed_indices, pb_main, activeLock, completedLock,
                   started, taskResult, dataFiles, cursors, restored,
                   runReturned, runResult, exportVars, importVars, bodyVars,
                   scrollVars, discVars, logVars>>

\* backup.rs 109-110: active_indices.lock(); *active -= 1.
LockActiveEnd(w) ==
    /\ wpc[w] = "lock_end"
    /\ activeLock = 0
    /\ activeLock' = w
    /\ active_indices' = active_indices - 1
    /\ wpc' = [wpc EXCEPT ![w] = "log_end"]
    /\ UNCHANGED <<operation, indices, max_parallel_indices, cpus,
                   chunkTaken, wChunk, wPos, completed_indices, pb_main,
                   logLock, completedLock, started, taskResult, dataFiles,
                   cursors, restored, runReturned, runResult, exportVars,
                   importVars, bodyVars, scrollVars, discVars, logVars>>

\* backup.rs 111-122: the "Completed backup" line; `active` stays locked.
LogEndWrite(w) ==
    /\ wpc[w] = "logw_end"
    /\ logLock = w
    /\ logLock' = 0
    /\ wpc' = [wpc EXCEPT ![w] = "lock_completed"]
    /\ UNCHANGED <<operation, indices, max_parallel_indices, cpus,
                   chunkTaken, wChunk, wPos, active_indices,
                   completed_indices, pb_main, activeLock, completedLock,
                   started, taskResult, dataFiles, cursors, restored,
                   runReturned, runResult, exportVars, importVars, bodyVars,
                   scrollVars, discVars, logVars>>

\* backup.rs 124-126 / restore.rs 94-96: completed_indices.lock();
\* *completed += 1; pb_main.set_position(*completed).
LockCompleted(w) ==
    /\ wpc[w] = "lock_completed"
    /\ completedLock = 0
    /\ completedLock' = w
    /\ completed_indices' = completed_indices + 1
    /\ pb_main' = completed_indices + 1
    /\ wpc' = [wpc EXCEPT ![w] = "iter_end"]
    /\ UNCHANGED <<operation, indices, max_parallel_indices, cpus,
                   chunkTaken, wChunk, wPos, active_indices, activeLock,
                   logLock, started, taskResult, dataFiles, cursors,
                   restored, runReturned, runResult, exportVars, importVars,
                   bodyVars, scrollVars, discVars, logVars>>

\* End of the loop body: the guards `completed` and (backup) `active` drop.
IterEnd(w) ==
    /\ wpc[w] = "iter_end"
    /\ completedLock' = 0
    /\ activeLock' = IF activeLock = w THEN 0 ELSE activeLock
    /\ wPos' = [wPos EXCEPT ![w] = @ + 1]
    /\ wpc' = [wpc EXCEPT ![w] = "next"]
    /\ UNCHANGED <<operation, indices, max_parallel_indices, cpus,
                   chunkTaken, wChunk, active_indices, completed_indices,
                   pb_main, logLock, started, taskResult, dataFiles, cursors,
                   restored, runReturned, runResult, exportVars, importVars,
                   bodyVars, scrollVars, discVars, logVars>>

\* restore.rs 74-86: the loop body of run_restore calls restore_index.
RestoreStart(w) ==
    /\ operation = "restore"
    /\ wpc[w] = "next"
    /\ wPos[w] <= ChunkLen(wChunk[w])
    /\ started' = [started EXCEPT ![Cur(w)] = @ + 1]
    /\ taskResult' = [taskResult EXCEPT ![Cur(w)] = "running"]
    /\ wpc' = [wpc EXCEPT ![w] = "task_map"]
    /\ UNCHANGED <<operation, indices, max_parallel_indices, cpus,
                   chunkTaken, wChunk, wPos, active_indices,
                   completed_indices, pb_main, activeLock, logLock,
                   completedLock, dataFiles, cursors, restored, runReturned,
                   runResult, exportVars, importVars, bodyVars, scrollVars,
                   discVars, logVars>>

\* restore.rs 116-123: restore_index up to and including restore_mapping.
RestoreMapping(w) ==
    /\ wpc[w] = "task_map"
    /\ operation = "restore"
    /\ logLock = 0
    /\ \E ok \in BOOLEAN :
         IF ok
         THEN /\ wpc' = [wpc EXCEPT ![w] = "task_data"]
              /\ taskResult' = taskResult
         ELSE /\ wpc' = [wpc EXCEPT ![w] = AfterTaskError(w)]
              /\ taskResult' = [taskResult EXCEPT ![Cur(w)] = "err"]
    /\ UNCHANGED <<operation, indices, max_parallel_indices, cpus,
                   chunkTaken, wChunk, wPos, active_indices,
                   completed_indices, pb_main, activeLock, logLock,
                   completedLock, started, dataFiles, cursors, restored,
                   runReturned, runResult, exportVars, importVars, bodyVars,
                   scrollVars, discVars, logVars>>

\* restore.rs 124-127: restore_data, then the closing log line.
RestoreData(w) ==
    /\ wpc[w] = "task_data"
    /\ operation = "restore"
    /\ logLock = 0
    /\ \E o \in RestoreDataOutcomes :
         /\ taskResult' = [taskResult EXCEPT ![Cur(w)] = o.res]
         /\ restored' = [restored EXCEPT ![Cur(w)] = o.cluster]
         /\ wpc' = [wpc EXCEPT ![w] =
                      IF o.res = "ok" THEN "lock_completed" ELSE AfterTaskError(w)]
    /\ UNCHANGED <<operation, indices, max_parallel_indices, cpus,
                   chunkTaken, wChunk, wPos, active_indices,
                   completed_indices, pb_main, activeLock, logLock,
                   completedLock, started, dataFiles, cursors, runReturned,
                   runResult, exportVars, importVars, bodyVars, scrollVars,
                   discVars, logVars>>

\* for_each has run every chunk.
AllChunksDone ==
    /\ \A k \in Chunks : k <= NumChunks => chunkTaken[k]
    /\ \A w \in Threads : wpc[w] = "idle"

\* A run whose result would reflect the failure of a task.
ResultFromTasks(logged) ==
    IF \E c \in 1..indices : taskResult[c] = "err" THEN "task_err"
    ELSE IF logged THEN "ok" ELSE "log_err"

\* backup.rs 133-138 / restore.rs 102-107: the value the orchestrator
\* returns after the loop: Ok(()), unless the `?` of the last log line
\* returns the log's write error.  The tasks' results are not read.
ResultAfterLoop(logged) == IF logged THEN "ok" ELSE "log_err"

\* backup.rs 131-138 / restore.rs 100-107: the orchestrator returns.
RunReturn ==
    /\ operation \in {"backup", "restore"}
    /\ ~runReturned
    /\ AllChunksDone
    /\ runReturned' = TRUE
    /\ \E logged \in BOOLEAN : runResult' = ResultAfterLoop(logged)
    /\ UNCHANGED <<operation, indices, max_parallel_indices, cpus,
                   chunkTaken, wChunk, wPos, wpc, active_indices,
                   completed_indices, pb_main, activeLock, logLock,
                   completedLock, started, taskResult, dataFiles, cursors,
                   restored, exportVars, importVars, bodyVars, scrollVars,
                   discVars, logVars>>

Next ==
    \/ \E w \in Threads, k \in Chunks : ClaimChunk(w, k)
    \/ \E w \in Threads : ChunkDone(w)
    \/ \E w \in Threads : LockActive(w)
    \/ \E w \in Threads : LogLock(w)
    \/ \E w \in Threads : LogStartWrite(w)
    \/ \E w \in Threads : BackupMapping(w)
    \/ \E w \in Threads : BackupData(w)
    \/ \E w \in Threads : LogErrorWrite(w)
    \/ \E w \in Threads : LockActiveEnd(w)
    \/ \E w \in Threads : LogEndWrite(w)
    \/ \E w \in Threads : LockCompleted(w)
    \/ \E w \in Threads : IterEnd(w)
    \/ \E w \in Threads : RestoreStart(w)
    \/ \E w \in Threads : RestoreMapping(w)
    \/ \E w \in Threads : RestoreData(w)
    \/ RunReturn

Spec == Init /\ [][Next]_vars


(***************************************************************************)
(* The orchestrators under a fair scheduler: whenever some step of the run *)
(* can be taken (a pool thread can go on, a task can return, the           *)
(* orchestrator can return), a step is eventually taken.                   *)
(***************************************************************************)
\* The runs whose termination is examined: one collection fewer than the
\* longest list of Spec.
LiveIndices == MaxIndices - 1
InitLive == Init /\ indices <= LiveIndices
SpecLive == InitLive /\ [][Next]_vars /\ WF_vars(Next)
(***************************************************************************)
(*            One export task: backup_index and backup_data                *)
(***************************************************************************)

(***************************************************************************)
(* A hit of a search response: the document's identifier and source, and   *)
(* the bookkeeping fields the cluster adds.  Document i of the snapshot    *)
(* has identifier i; its source is told from it by an offset.              *)
(***************************************************************************)
Hit(i) == [id |-> i, source |-> 100 + i, index |-> "c", type |-> "_doc", score |-> 1]

\* utils.rs 25-33: the object without "_index", "_type" and "_score".
reduce_document_size(doc) ==
    [f \in DOMAIN doc \ {"index", "type", "score"} |-> doc[f]]

\* The tokens of the data file: the brackets, the comma and a serialized
\* (reduced) document.
NoDoc == [id |-> 0, source |-> 0]
LBracket == [k |-> "[", d |-> NoDoc]
Comma == [k |-> ",", d |-> NoDoc]
RBracket == [k |-> "]", d |-> NoDoc]
DocToken(doc) == [k |-> "doc", d |-> doc]

\* The documents the data file holds, in file order.
DocsOf(f) == SelectSeq(f, LAMBDA t : t.k = "doc")
CountOf(f, k) == Cardinality({i \in DOMAIN f : f[i].k = k})
\* The JSON array of a sequence of document tokens: "[" d1 "," d2 .. "]".
ArrayOf(docs) ==
    [i \in 1..(IF docs = <<>> THEN 2 ELSE 2 * Len(docs) + 1) |->
        IF i = 1 THEN LBracket
        ELSE IF i = (IF docs = <<>> THEN 2 ELSE 2 * Len(docs) + 1) THEN RBracket
        ELSE IF i % 2 = 0 THEN docs[i \div 2]
        ELSE Comma]
IsPrefix(s, t) == Len(s) <= Len(t) /\ \A i \in DOMAIN s : s[i] = t[i]
\* The file is the beginning of an array: of the array of its documents,
\* or of that array with one more document.
PrefixOfArray(f) ==
    \/ IsPrefix(f, ArrayOf(DocsOf(f)))
    \/ IsPrefix(f, ArrayOf(Append(DocsOf(f), DocToken(NoDoc))))
\* The file is a closed array, readable as JSON.
Complete(f) == f = ArrayOf(DocsOf(f))

\* A data file that an earlier run left at the same path.
StaleFile == <<LBracket, DocToken(reduce_document_size(Hit(1))), RBracket>>

(***************************************************************************)
(* The cluster's side of a cursor: the next page of the snapshot, at most  *)
(* `size` documents, in "_doc" order; every response carries a new token.  *)
(***************************************************************************)
SnapshotPage(pos, size) ==
    [j \in 1..Min(size, srvDocs - pos) |-> Hit(pos + j)]
NextToken == srvToken + 1

\* The requests of a cursor's life, as the task issues them.
OpenRequest == [op |-> "open", token |-> 0]
ContinueRequest(token) == [op |-> "continue", token |-> token]
ReleaseRequest(token) == [op |-> "release", token |-> token]

\* backup.rs 273: the token read from the continuation response replaces
\* scroll_id.
KeepScrollId(resp) == scroll_id
NewScrollId(resp) == resp.token

\* backup.rs 237-240: the first page's separator: none before the first hit.
FirstPageAlwaysComma == TRUE
FirstPageNeedsComma == ~is_first

\* backup.rs 252: `while !hits.is_empty()`, `hits` being the first page.
LoopRuns == hits # <<>>

\* backup.rs 280: `if batch_hits.is_empty() { break; }`.
PageEndsLoopWhenShort(page) == Len(page) < scroll_size
PageEndsLoop(page) == page = <<>>

InitExport ==
    /\ OrchIdle
    /\ ImportIdle
    /\ RestIdle
    /\ doc_count \in 0..MaxDocs
    /\ srvDocs \in 0..MaxDocs
    /\ scroll_size \in 1..MaxPage
    /\ compression \in BOOLEAN
    /\ epc = "start"
    /\ mappingStatus = "none"
    /\ scroll_id = 0
    /\ srvToken = 0
    /\ srvPos = 0
    /\ srvCursor = "none"
    /\ response = [token |-> 0, page |-> <<>>]
    /\ hits = <<>>
    /\ batch_hits = <<>>
    /\ hitIdx = 0
    /\ is_first = TRUE
    /\ total_docs = 0
    /\ fileExists \in BOOLEAN
    /\ fileCreated = FALSE
    /\ fileContent = IF fileExists THEN StaleFile ELSE <<>>
    /\ sent = <<>>
    /\ pages = <<>>
    /\ expResult = "running"
    /\ expErr = "none"
    /\ pb_len = 0
    /\ pb_pos = 0

\* `?` and `return Err(..)`: the task returns the error.
ErrExit(cause) ==
    /\ expResult' = "err"
    /\ expErr' = cause
    /\ epc' = "returned"
\* The task goes on to its next statement.
Go(pc) ==
    /\ epc' = pc
    /\ expResult' = expResult
    /\ expErr' = expErr

\* backup.rs 148-153: the log line, create_dir_all and backup_mapping
\* (323-340).  backup_mapping returns an error if the request cannot be
\* sent, the body is not JSON, or the mapping file or the log cannot be
\* written; it does not look at the status of the response, so the JSON
\* body of a non-success response is written as the mapping and the task
\* goes on.
EIndexStart ==
    /\ epc = "start"
    /\ \E r \in {"2xx", "non2xx", "log", "dir", "send", "not_json"} :
         CASE r \in {"log", "dir", "send"} ->
                ErrExit("mapping") /\ mappingStatus' = mappingStatus
           [] r = "not_json" ->
                /\ ErrExit("mapping")
                /\ \E st \in {"2xx", "non2xx"} : mappingStatus' = st
           [] r \in {"2xx", "non2xx"} ->
                /\ \E written \in BOOLEAN :
                     IF written THEN Go("count") ELSE ErrExit("mapping")
                /\ mappingStatus' = r
    /\ UNCHANGED <<orchVars, doc_count, srvDocs, scroll_size, compression,
                   scroll_id, srvToken, srvPos, srvCursor, response, hits,
                   batch_hits, hitIdx, is_first, total_docs, fileExists,
                   fileCreated, fileContent, sent, pages, pb_len, pb_pos,
                   importVars, bodyVars, scrollVars, discVars, logVars>>

\* backup.rs 167-181: the count request; doc_count == 0 takes the early exit.
ECount ==
    /\ epc = "count"
    /\ \E ok \in BOOLEAN :
         IF ~ok THEN ErrExit("count") /\ pb_len' = pb_len
         ELSE IF doc_count = 0 THEN Go("empty") /\ pb_len' = pb_len
         ELSE Go("open") /\ pb_len' = doc_count
    /\ UNCHANGED <<orchVars, doc_count, srvDocs, scroll_size, compression,
                   mappingStatus, scroll_id, srvToken, srvPos, srvCursor,
                   response, hits, batch_hits, hitIdx, is_first, total_docs,
                   fileExists, fileCreated, fileContent, sent, pages, pb_pos,
                   importVars, bodyVars, scrollVars, discVars, logVars>>

\* backup.rs 174-179: "Index .. is empty, skipping data backup"; return Ok.
EEmpty ==
    /\ epc = "empty"
    /\ \E ok \in BOOLEAN : IF ok THEN Go("index_log") ELSE ErrExit("log")
    /\ UNCHANGED <<orchVars, doc_count, srvDocs, scroll_size, compression,
                   mappingStatus, scroll_id, srvToken, srvPos, srvCursor,
                   response, hits, batch_hits, hitIdx, is_first, total_docs,
                   fileExists, fileCreated, fileContent, sent, pages, pb_len,
                   pb_pos, importVars, bodyVars, scrollVars, discVars,
                   logVars>>

\* backup.rs 183-218: the log line, then the open-cursor request.  On a
\* success status the cluster has opened a cursor over the snapshot and
\* answers with its token and the first page.
EOpen ==
    /\ epc = "open"
    /\ \E r \in {"ok", "log", "send", "status"} :
         CASE r = "log" ->
                /\ ErrExit("log")
                /\ UNCHANGED <<sent, srvCursor, srvToken, srvPos, response>>
           [] r \in {"send", "status"} ->
                /\ ErrExit(r)
                /\ sent' = Append(sent, OpenRequest)
                /\ UNCHANGED <<srvCursor, srvToken, srvPos, response>>
           [] r = "ok" ->
                /\ Go("open_parse")
                /\ sent' = Append(sent, OpenRequest)
                /\ srvCursor' = "open"
                /\ srvToken' = NextToken
                /\ srvPos' = Len(SnapshotPage(0, scroll_size))
                /\ response' = [token |-> NextToken, page |-> SnapshotPage(0, scroll_size)]
    /\ UNCHANGED <<orchVars, doc_count, srvDocs, scroll_size, compression,
                   mappingStatus, scroll_id, hits, batch_hits, hitIdx,
                   is_first, total_docs, fileExists, fileCreated,
                   fileContent, pages, pb_len, pb_pos, importVars, bodyVars,
                   scrollVars, discVars, logVars>>

\* backup.rs 220-224: the response body is parsed and "_scroll_id" read.
EOpenParse ==
    /\ epc = "open_parse"
    /\ \E ok \in BOOLEAN :
         IF ok THEN Go("create") /\ scroll_id' = response.token
         ELSE ErrExit("parse") /\ scroll_id' = scroll_id
    /\ UNCHANGED <<orchVars, doc_count, srvDocs, scroll_size, compression,
                   mappingStatus, srvToken, srvPos, srvCursor, response,
                   hits, batch_hits, hitIdx, is_first, total_docs,
                   fileExists, fileCreated, fileContent, sent, pages, pb_len,
                   pb_pos, importVars, bodyVars, scrollVars, discVars,
                   logVars>>

\* backup.rs 226-228: File::create makes the data file, or empties it.
ECreate ==
    /\ epc = "create"
    /\ \E ok \in BOOLEAN :
         IF ok
         THEN /\ Go("hits")
              /\ fileExists' = TRUE
              /\ fileCreated' = TRUE
              /\ fileContent' = <<>>
         ELSE /\ ErrExit("io")
              /\ UNCHANGED <<fileExists, fileCreated, fileContent>>
    /\ UNCHANGED <<orchVars, doc_count, srvDocs, scroll_size, compression,
                   mappingStatus, scroll_id, srvToken, srvPos, srvCursor,
                   response, hits, batch_hits, hitIdx, is_first, total_docs,
                   sent, pages, pb_len, pb_pos, importVars, bodyVars,
                   scrollVars, discVars, logVars>>

\* backup.rs 230: the first page, response_json["hits"]["hits"].
EHits ==
    /\ epc = "hits"
    /\ \E ok \in BOOLEAN :
         IF ok
         THEN /\ Go("write_open")
              /\ hits' = response.page
              /\ pages' = Append(pages, Len(response.page))
         ELSE /\ ErrExit("parse")
              /\ UNCHANGED <<hits, pages>>
    /\ UNCHANGED <<orchVars, doc_count, srvDocs, scroll_size, compression,
                   mappingStatus, scroll_id, srvToken, srvPos, srvCursor,
                   response, batch_hits, hitIdx, is_first, total_docs,
                   fileExists, fileCreated, fileContent, sent, pb_len,
                   pb_pos, importVars, bodyVars, scrollVars, discVars,
                   logVars>>

\* backup.rs 232-235: the opening bracket; total_docs = 0; is_first = true.
EWriteOpen ==
    /\ epc = "write_open"
    /\ \E ok \in BOOLEAN :
         IF ok
         THEN /\ Go("first_sep")
              /\ fileContent' = Append(fileContent, LBracket)
              /\ hitIdx' = 1
         ELSE /\ ErrExit("io")
              /\ UNCHANGED <<fileContent, hitIdx>>
    /\ total_docs' = 0
    /\ is_first' = TRUE
    /\ UNCHANGED <<orchVars, doc_count, srvDocs, scroll_size, compression,
                   mappingStatus, scroll_id, srvToken, srvPos, srvCursor,
                   response, hits, batch_hits, fileExists, fileCreated, sent,
                   pages, pb_len, pb_pos, importVars, bodyVars, scrollVars,
                   discVars, logVars>>

\* backup.rs 237-240: `for hit in hits`: the comma before every hit but the
\* first.
EFirstSep ==
    /\ epc = "first_sep"
    /\ IF hitIdx > Len(hits)
       THEN Go("loop_head") /\ UNCHANGED fileContent
       ELSE IF ~FirstPageNeedsComma
       THEN Go("first_doc") /\ UNCHANGED fileContent
       ELSE \E ok \in BOOLEAN :
              IF ok THEN Go("first_doc") /\ fileContent' = Append(fileContent, Comma)
              ELSE ErrExit("io") /\ UNCHANGED fileContent
    /\ UNCHANGED <<orchVars, doc_count, srvDocs, scroll_size, compression,
                   mappingStatus, scroll_id, srvToken, srvPos, srvCursor,
                   response, hits, batch_hits, hitIdx, is_first, total_docs,
                   fileExists, fileCreated, sent, pages, pb_len, pb_pos,
                   importVars, bodyVars, scrollVars, discVars, logVars>>

\* A progress bar that a written document does not advance.
PositionKept(pos) == pos
\* backup.rs 247 and 289: pb_index.inc(1).
PositionAfterDoc(pos) == pos + 1

\* backup.rs 242-247: the reduced document is written; the progress advances.
EFirstDoc ==
    /\ epc = "first_doc"
    /\ \E ok \in BOOLEAN :
         IF ok
         THEN /\ Go("first_sep")
              /\ fileContent' =
                   Append(fileContent, DocToken(reduce_document_size(hits[hitIdx])))
              /\ is_first' = FALSE
              /\ total_docs' = total_docs + 1
              /\ pb_pos' = PositionAfterDoc(pb_pos)
              /\ hitIdx' = hitIdx + 1
         ELSE /\ ErrExit("io")
              /\ UNCHANGED <<fileContent, is_first, total_docs, pb_pos, hitIdx>>
    /\ UNCHANGED <<orchVars, doc_count, srvDocs, scroll_size, compression,
                   mappingStatus, scroll_id, srvToken, srvPos, srvCursor,
                   response, hits, batch_hits, fileExists, fileCreated, sent,
                   pages, pb_len, importVars, bodyVars, scrollVars, discVars,
                   logVars>>

\* backup.rs 252: the loop's condition.
ELoopHead ==
    /\ epc = "loop_head"
    /\ IF LoopRuns THEN Go("continue") ELSE Go("close")
    /\ UNCHANGED <<orchVars, doc_count, srvDocs, scroll_size, compression,
                   mappingStatus, scroll_id, srvToken, srvPos, srvCursor,
                   response, hits, batch_hits, hitIdx, is_first, total_docs,
                   fileExists, fileCreated, fileContent, sent, pages, pb_len,
                   pb_pos, importVars, bodyVars, scrollVars, discVars,
                   logVars>>

\* backup.rs 253-270: the continuation request carries scroll_id.  If it
\* cannot be sent the task returns; on a non-success status the task sends
\* the release request (its result is dropped) and returns; on a success
\* status the cluster, which accepts only its latest token, has moved the
\* cursor on and answers with a new token and the next page.
EContinue ==
    /\ epc = "continue"
    /\ \E r \in {"ok", "send", "status"} :
         CASE r = "send" ->
                /\ ErrExit("send")
                /\ sent' = Append(sent, ContinueRequest(scroll_id))
                /\ UNCHANGED <<srvCursor, srvToken, srvPos, response>>
           [] r = "status" ->
                /\ ErrExit("status")
                /\ sent' = sent \o <<ContinueRequest(scroll_id), ReleaseRequest(scroll_id)>>
                /\ \E delivered \in BOOLEAN :
                     srvCursor' = IF delivered THEN "released" ELSE srvCursor
                /\ UNCHANGED <<srvToken, srvPos, response>>
           [] r = "ok" ->
                /\ srvCursor = "open"
                /\ scroll_id = srvToken
                /\ Go("cont_parse")
                /\ sent' = Append(sent, ContinueRequest(scroll_id))
                /\ srvToken' = NextToken
                /\ srvPos' = srvPos + Len(SnapshotPage(srvPos, scroll_size))
                /\ response' = [token |-> NextToken,
                                page |-> SnapshotPage(srvPos, scroll_size)]
                /\ UNCHANGED srvCursor
    /\ UNCHANGED <<orchVars, doc_count, srvDocs, scroll_size, compression,
                   mappingStatus, scroll_id, hits, batch_hits, hitIdx,
                   is_first, total_docs, fileExists, fileCreated,
                   fileContent, pages, pb_len, pb_pos, importVars, bodyVars,
                   scrollVars, discVars, logVars>>

\* backup.rs 272-282: the body is parsed, scroll_id replaced, the page read;
\* an empty page leaves the loop.
EContParse ==
    /\ epc = "cont_parse"
    /\ \E r \in {"ok", "bad_body", "bad_hits"} :
         CASE r = "bad_body" ->
                /\ ErrExit("parse")
                /\ UNCHANGED <<scroll_id, batch_hits, pages, hitIdx>>
           [] r = "bad_hits" ->
                /\ ErrExit("parse")
                /\ scroll_id' = NewScrollId(response)
                /\ UNCHANGED <<batch_hits, pages, hitIdx>>
           [] r = "ok" ->
                /\ scroll_id' = NewScrollId(response)
                /\ batch_hits' = response.page
                /\ pages' = Append(pages, Len(response.page))
                /\ hitIdx' = 1
                /\ IF PageEndsLoop(response.page) THEN Go("close") ELSE Go("page_sep")
    /\ UNCHANGED <<orchVars, doc_count, srvDocs, scroll_size, compression,
                   mappingStatus, srvToken, srvPos, srvCursor, response,
                   hits, is_first, total_docs, fileExists, fileCreated,
                   fileContent, sent, pb_len, pb_pos, importVars, bodyVars,
                   scrollVars, discVars, logVars>>

\* backup.rs 284-285: `for hit in &batch_hits`: a comma before every hit.
EPageSep ==
    /\ epc = "page_sep"
    /\ IF hitIdx > Len(batch_hits)
       THEN Go("flush") /\ UNCHANGED fileContent
       ELSE \E ok \in BOOLEAN :
              IF ok THEN Go("page_doc") /\ fileContent' = Append(fileContent, Comma)
              ELSE ErrExit("io") /\ UNCHANGED fileContent
    /\ UNCHANGED <<orchVars, doc_count, srvDocs, scroll_size, compression,
                   mappingStatus, scroll_id, srvToken, srvPos, srvCursor,
                   response, hits, batch_hits, hitIdx, is_first, total_docs,
                   fileExists, fileCreated, sent, pages, pb_len, pb_pos,
                   importVars, bodyVars, scrollVars, discVars, logVars>>

\* backup.rs 286-289.
EPageDoc ==
    /\ epc = "page_doc"
    /\ \E ok \in BOOLEAN :
         IF ok
         THEN /\ Go("page_sep")
              /\ fileContent' =
                   Append(fileContent, DocToken(reduce_document_size(batch_hits[hitIdx])))
              /\ total_docs' = total_docs + 1
              /\ pb_pos' = PositionAfterDoc(pb_pos)
              /\ hitIdx' = hitIdx + 1
         ELSE /\ ErrExit("io")
              /\ UNCHANGED <<fileContent, total_docs, pb_pos, hitIdx>>
    /\ UNCHANGED <<orchVars, doc_count, srvDocs, scroll_size, compression,
                   mappingStatus, scroll_id, srvToken, srvPos, srvCursor,
                   response, hits, batch_hits, is_first, fileExists,
                   fileCreated, sent, pages, pb_len, importVars, bodyVars,
                   scrollVars, discVars, logVars>>

\* backup.rs 292: writer.flush() after the page.
EFlush ==
    /\ epc = "flush"
    /\ \E ok \in BOOLEAN : IF ok THEN Go("loop_head") ELSE ErrExit("io")
    /\ UNCHANGED <<orchVars, doc_count, srvDocs, scroll_size, compression,
                   mappingStatus, scroll_id, srvToken, srvPos, srvCursor,
                   response, hits, batch_hits, hitIdx, is_first, total_docs,
                   fileExists, fileCreated, fileContent, sent, pages, pb_len,
                   pb_pos, importVars, bodyVars, scrollVars, discVars,
                   logVars>>

\* backup.rs 295-296: the closing bracket, then flush.  If the flush fails
\* the task returns the error; dropping the writer flushes once more, so
\* the bracket may still reach the file.
EClose ==
    /\ epc = "close"
    /\ \E r \in {"ok", "write", "flush"} :
         CASE r = "ok" ->
                Go("release") /\ fileContent' = Append(fileContent, RBracket)
           [] r = "write" ->
                ErrExit("io") /\ UNCHANGED fileContent
           [] r = "flush" ->
                /\ ErrExit("io")
                /\ \E kept \in BOOLEAN :
                     fileContent' = IF kept THEN Append(fileContent, RBracket)
                                    ELSE fileContent
    /\ UNCHANGED <<orchVars, doc_count, srvDocs, scroll_size, compression,
                   mappingStatus, scroll_id, srvToken, srvPos, srvCursor,
                   response, hits, batch_hits, hitIdx, is_first, total_docs,
                   fileExists, fileCreated, sent, pages, pb_len, pb_pos,
                   importVars, bodyVars, scrollVars, discVars, logVars>>

\* backup.rs 298-301: the release request carries scroll_id; `let _ =`
\* drops its result.
ERelease ==
    /\ epc = "release"
    /\ sent' = Append(sent, ReleaseRequest(scroll_id))
    /\ \E delivered \in BOOLEAN :
         srvCursor' = IF delivered THEN "released" ELSE srvCursor
    /\ Go("final_log")
    /\ UNCHANGED <<orchVars, doc_count, srvDocs, scroll_size, compression,
                   mappingStatus, scroll_id, srvToken, srvPos, response,
                   hits, batch_hits, hitIdx, is_first, total_docs,
                   fileExists, fileCreated, fileContent, pages, pb_len,
                   pb_pos, importVars, bodyVars, scrollVars, discVars,
                   logVars>>

\* backup.rs 303-320: the closing log line and, in a build with the
\* "compression" feature, the log line and compress_file; return Ok.
EFinalLog ==
    /\ epc = "final_log"
    /\ \E r \in {"ok", "log", "compress"} :
         CASE r = "ok" -> Go("index_log")
           [] r = "log" -> ErrExit("log")
           [] r = "compress" -> compression /\ ErrExit("compress")
    /\ UNCHANGED <<orchVars, doc_count, srvDocs, scroll_size, compression,
                   mappingStatus, scroll_id, srvToken, srvPos, srvCursor,
                   response, hits, batch_hits, hitIdx, is_first, total_docs,
                   fileExists, fileCreated, fileContent, sent, pages, pb_len,
                   pb_pos, importVars, bodyVars, scrollVars, discVars,
                   logVars>>

\* backup.rs 155-156: backup_data returned Ok; backup_index writes its last
\* log line and returns.
EIndexLog ==
    /\ epc = "index_log"
    /\ \E ok \in BOOLEAN :
         IF ok THEN expResult' = "ok" /\ expErr' = expErr /\ epc' = "returned"
         ELSE ErrExit("index_log")
    /\ UNCHANGED <<orchVars, doc_count, srvDocs, scroll_size, compression,
                   mappingStatus, scroll_id, srvToken, srvPos, srvCursor,
                   response, hits, batch_hits, hitIdx, is_first, total_docs,
                   fileExists, fileCreated, fileContent, sent, pages, pb_len,
                   pb_pos, importVars, bodyVars, scrollVars, discVars,
                   logVars>>

NextExport ==
    \/ EIndexStart
    \/ ECount
    \/ EEmpty
    \/ EOpen
    \/ EOpenParse
    \/ ECreate
    \/ EHits
    \/ EWriteOpen
    \/ EFirstSep
    \/ EFirstDoc
    \/ ELoopHead
    \/ EContinue
    \/ EContParse
    \/ EPageSep
    \/ EPageDoc
    \/ EFlush
    \/ EClose
    \/ ERelease
    \/ EFinalLog
    \/ EIndexLog

SpecExport == InitExport /\ [][NextExport]_vars

(***************************************************************************)
(*                    One import task: restore_data                        *)
(***************************************************************************)

\* The array the data file holds: the reduced documents 1..fileDocs, in
\* file order.
FileArray == [i \in 1..fileDocs |-> reduce_document_size(Hit(i))]
\* restore.rs 161: serde_json::from_reader gives the elements of the array.
ParseFile(f) == [i \in DOMAIN DocsOf(f) |-> DocsOf(f)[i].d]

\* restore.rs 180: documents.chunks(bulk_batch_size).enumerate(): chunk k
\* (0-based) holds the elements k*B+1 .. min((k+1)*B, len).
ChunkSkipsLast(docs, k) ==
    SubSeq(docs, k * bulk_batch_size + 1,
           Min((k + 1) * bulk_batch_size, Len(docs)) - 1)
Chunk(docs, k) ==
    SubSeq(docs, k * bulk_batch_size + 1, Min((k + 1) * bulk_batch_size, Len(docs)))
HasChunk(docs, k) == k * bulk_batch_size < Len(docs)

\* restore.rs 173: ((doc_count as f64) / (bulk_batch_size as f64)).ceil().
BatchCount(n) == CeilDiv(n, bulk_batch_size)

\* A progress bar that advances by the documents of the batch.
PositionAfterBatchDocs(pos, n) == pos + n
\* restore.rs 262: pb_index.inc(1), after a batch of n documents.
PositionAfterBatch(pos, n) == pos + 1

NoResponse == [status |-> "none", body |-> 0, rejected |-> {}]
NoError == [kind |-> "none", status |-> "none", body |-> 0]
\* The error of restore.rs 219-226, which names the status and the body.
BulkError(resp) == [kind |-> "bulk", status |-> resp.status, body |-> resp.body]
\* Any other error: a `?` on a log, file, serialization or HTTP call.
OtherError(kind) == [kind |-> kind, status |-> "none", body |-> 0]

IdsOf(docs) == {docs[i].id : i \in DOMAIN docs}

\* restore.rs 237-252: the items of a bulk response answer the documents of
\* the request in order; the items that carry an "error" object give one
\* description each ("type: reason", here the identifier of the document).
ItemErrors(docs, rejected) ==
    LET refused == SelectSeq(docs, LAMBDA d : d.id \in rejected)
    IN  [i \in DOMAIN refused |-> refused[i].id]
\* restore.rs 253: .take(5).
MaxLoggedErrors == 5
AllErrors(errs) == errs
FirstErrors(errs) == SubSeq(errs, 1, Min(MaxLoggedErrors, Len(errs)))

InitImport ==
    /\ OrchIdle
    /\ ExportIdle
    /\ RestIdle
    /\ srcFiles \in {"plain", "gz", "both", "none"}
    /\ fileDocs \in 0..MaxDocs
    /\ dataFile = ArrayOf([i \in 1..fileDocs |-> DocToken(FileArray[i])])
    /\ bulk_batch_size \in 1..MaxBatch
    /\ ipc = "locate"
    /\ documents = <<>>
    /\ batch_num = 0
    /\ bulkSent = <<>>
    /\ bulkResp = NoResponse
    /\ cluster = {}
    /\ impResult = "running"
    /\ impErr = NoError
    /\ errLog = <<>>
    /\ ipb_len = 0
    /\ ipb_pos = 0

IErrExit(err) ==
    /\ impResult' = "err"
    /\ impErr' = err
    /\ ipc' = "returned"
IGo(pc) ==
    /\ ipc' = pc
    /\ impResult' = impResult
    /\ impErr' = impErr

\* restore.rs 137-155: the plain file, else the compressed sibling, which
\* `gunzip -k` unpacks beside it, else an error.
ILocate ==
    /\ ipc = "locate"
    /\ CASE srcFiles \in {"plain", "both"} -> IGo("read") /\ UNCHANGED srcFiles
         [] srcFiles = "gz" ->
              \E r \in {"ok", "log", "gunzip"} :
                IF r = "ok" THEN IGo("read") /\ srcFiles' = "both"
                ELSE IErrExit(OtherError(r)) /\ UNCHANGED srcFiles
         [] srcFiles = "none" -> IErrExit(OtherError("not_found")) /\ UNCHANGED srcFiles
    /\ UNCHANGED <<orchVars, exportVars, fileDocs, dataFile, bulk_batch_size,
                   documents, batch_num, bulkSent, bulkResp, cluster, errLog,
                   ipb_len, ipb_pos, bodyVars, scrollVars, discVars, logVars>>

\* restore.rs 157-161: the log line; the whole file is parsed into memory
\* (an error if it cannot be opened or is not a complete JSON array).
IRead ==
    /\ ipc = "read"
    /\ \E r \in {"log", "read"} \cup (IF Complete(dataFile) THEN {"ok"} ELSE {}) :
         IF r = "ok" THEN IGo("check") /\ documents' = ParseFile(dataFile)
         ELSE IErrExit(OtherError(r)) /\ UNCHANGED documents
    /\ UNCHANGED <<orchVars, exportVars, srcFiles, fileDocs, dataFile,
                   bulk_batch_size, batch_num, bulkSent, bulkResp, cluster,
                   errLog, ipb_len, ipb_pos, bodyVars, scrollVars, discVars,
                   logVars>>

\* restore.rs 163-178: an empty array returns Ok at once; otherwise the bar
\* gets the batch count as its length and the HTTP client is built.
ICheck ==
    /\ ipc = "check"
    /\ IF Len(documents) = 0
       THEN /\ \E ok \in BOOLEAN :
                 IF ok THEN impResult' = "ok" /\ impErr' = impErr /\ ipc' = "returned"
                 ELSE IErrExit(OtherError("log"))
            /\ UNCHANGED ipb_len
       ELSE \E r \in {"ok", "log", "client"} :
              IF r = "ok" THEN IGo("batch") /\ ipb_len' = BatchCount(Len(documents))
              ELSE IErrExit(OtherError(r)) /\ UNCHANGED ipb_len
    /\ UNCHANGED <<orchVars, exportVars, srcFiles, fileDocs, dataFile,
                   bulk_batch_size, documents, batch_num, bulkSent, bulkResp,
                   cluster, errLog, ipb_pos, bodyVars, scrollVars, discVars,
                   logVars>>

\* restore.rs 180-213: the next chunk's body is built and logged, and sent
\* as one bulk request.  A request that got its response was either taken
\* (success status; the cluster indexes the documents it does not reject)
\* or refused as a whole (non-success status).
IBatchSend ==
    /\ ipc = "batch"
    /\ HasChunk(documents, batch_num)
    /\ \E r \in {"2xx", "4xx", "5xx", "send", "log", "serialize"} :
         CASE r \in {"log", "serialize"} ->
                /\ IErrExit(OtherError(r))
                /\ UNCHANGED <<bulkSent, bulkResp, cluster>>
           [] r = "send" ->
                /\ IErrExit(OtherError(r))
                /\ bulkSent' = Append(bulkSent,
                      [seq |-> batch_num + 1, docs |-> Chunk(documents, batch_num)])
                /\ bulkResp' = NoResponse
                /\ UNCHANGED cluster
           [] r = "2xx" ->
                /\ IGo("response")
                /\ bulkSent' = Append(bulkSent,
                      [seq |-> batch_num + 1, docs |-> Chunk(documents, batch_num)])
                /\ \E rejected \in SUBSET IdsOf(Chunk(documents, batch_num)) :
                     /\ bulkResp' = [status |-> r, body |-> batch_num + 1,
                                     rejected |-> rejected]
                     /\ cluster' = cluster \cup
                                     (IdsOf(Chunk(documents, batch_num)) \ rejected)
           [] r \in {"4xx", "5xx"} ->
                /\ IGo("response")
                /\ bulkSent' = Append(bulkSent,
                      [seq |-> batch_num + 1, docs |-> Chunk(documents, batch_num)])
                /\ bulkResp' = [status |-> r, body |-> batch_num + 1, rejected |-> {}]
                /\ UNCHANGED cluster
    /\ UNCHANGED <<orchVars, exportVars, srcFiles, fileDocs, dataFile,
                   bulk_batch_size, documents, batch_num, errLog, ipb_len,
                   ipb_pos, bodyVars, scrollVars, discVars, logVars>>

\* restore.rs 215-262: a non-success status returns the error made of the
\* status and the body, if the body can be read (`response.text()?`).  On a
\* success status the body is read and parsed; if its "errors" flag is set
\* a warning and the first descriptions of the item errors are logged
\* (only a failing log write returns an error), and the bar advances by one.
IResponse ==
    /\ ipc = "response"
    /\ IF bulkResp.status # "2xx"
       THEN /\ \E readable \in BOOLEAN :
                 IF readable THEN IErrExit(BulkError(bulkResp))
                 ELSE IErrExit(OtherError("body"))
            /\ UNCHANGED <<ipb_pos, batch_num, errLog>>
       ELSE \E r \in {"ok", "body", "parse"} \cup
                       (IF bulkResp.rejected # {} THEN {"log"} ELSE {}) :
              IF r = "ok"
              THEN /\ IGo("batch")
                   /\ errLog' =
                        IF bulkResp.rejected # {}
                        THEN Append(errLog,
                               FirstErrors(ItemErrors(Chunk(documents, batch_num),
                                                      bulkResp.rejected)))
                        ELSE errLog
                   /\ ipb_pos' = PositionAfterBatch(ipb_pos, Len(Chunk(documents, batch_num)))
                   /\ batch_num' = batch_num + 1
              ELSE /\ IErrExit(OtherError(r))
                   /\ UNCHANGED <<ipb_pos, batch_num, errLog>>
    /\ UNCHANGED <<orchVars, exportVars, srcFiles, fileDocs, dataFile,
                   bulk_batch_size, documents, bulkSent, bulkResp, cluster,
                   ipb_len, bodyVars, scrollVars, discVars, logVars>>

\* restore.rs 265-269: the chunks are exhausted; the last log line; Ok.
IDone ==
    /\ ipc = "batch"
    /\ ~HasChunk(documents, batch_num)
    /\ \E ok \in BOOLEAN :
         IF ok THEN impResult' = "ok" /\ impErr' = impErr /\ ipc' = "returned"
         ELSE IErrExit(OtherError("log"))
    /\ UNCHANGED <<orchVars, exportVars, srcFiles, fileDocs, dataFile,
                   bulk_batch_size, documents, batch_num, bulkSent, bulkResp,
                   cluster, errLog, ipb_len, ipb_pos, bodyVars, scrollVars,
                   discVars, logVars>>

NextImport ==
    \/ ILocate
    \/ IRead
    \/ ICheck
    \/ IBatchSend
    \/ IResponse
    \/ IDone

SpecImport == InitImport /\ [][NextImport]_vars

(***************************************************************************)
(*        The body of one bulk request: restore_data, lines 181-197        *)
(***************************************************************************)

(***************************************************************************)
(* A document as parsed from the data file is any JSON value.  What the    *)
(* loop reads of it: whether "_id" is a string (id > 0: that string) and   *)
(* whether "_source" is an object, something else, or absent.              *)
(***************************************************************************)
FileDoc(i) ==
    {[id |-> n, src |-> s] : n \in {0, i}, s \in {"object", "other", "absent"}}
FileChunks ==
    UNION {{c \in [1..n -> UNION {FileDoc(i) : i \in 1..n}] :
              \A i \in 1..n : c[i] \in FileDoc(i)} : n \in 1..MaxChunk}

\* restore.rs 184: doc["_id"].as_str().unwrap_or("") (0 stands for "").
DocId(doc) == doc.id
\* restore.rs 185-190: the action line names the collection and the id.
ActionLine(doc) == [k |-> "action", index |-> "c", id |-> DocId(doc)]
\* restore.rs 192-195: the source object, serialized, on a line of its own.
SourceLine(doc) == [k |-> "source", index |-> "c", id |-> doc.id]
\* restore.rs 192: `if let Some(source) = doc["_source"].as_object()`.
HasSourceObject(doc) == doc.src = "object"

InitBody ==
    /\ OrchIdle
    /\ ExportIdle
    /\ ImportIdle
    /\ ScrollIdle
    /\ DiscIdle
    /\ LogIdle
    /\ chunk \in FileChunks
    /\ doc_idx = 1
    /\ bulk_body = <<>>
    /\ bpc = "build"

\* restore.rs 183-197: one turn of `for doc in chunk`: the action line, and
\* the source line if the document's "_source" is an object.
BodyDoc ==
    /\ bpc = "build"
    /\ doc_idx <= Len(chunk)
    /\ bulk_body' =
         IF HasSourceObject(chunk[doc_idx])
         THEN bulk_body \o <<ActionLine(chunk[doc_idx]), SourceLine(chunk[doc_idx])>>
         ELSE Append(bulk_body, ActionLine(chunk[doc_idx]))
    /\ doc_idx' = doc_idx + 1
    /\ UNCHANGED <<orchVars, exportVars, importVars, chunk, bpc, scrollVars,
                   discVars, logVars>>

\* restore.rs 198-213: the loop is over; the body goes into the request.
BodyBuilt ==
    /\ bpc = "build"
    /\ doc_idx > Len(chunk)
    /\ bpc' = "built"
    /\ UNCHANGED <<orchVars, exportVars, importVars, chunk, doc_idx,
                   bulk_body, scrollVars, discVars, logVars>>

NextBody ==
    \/ BodyDoc
    \/ BodyBuilt

SpecBody == InitBody /\ [][NextBody]_vars

(***************************************************************************)
(*   The page size of the open-cursor request: backup_data, lines 183-211  *)
(***************************************************************************)

\* Version strings, character by character.
Versions ==
    { <<"8", ".", "3", ".", "3">>, <<"8", ".", "3", "0", ".", "1">>,
      <<"8", ".", "3">>, <<"8", ".", "2", ".", "3">>,
      <<"8", ".", "1", "3", ".", "0">>, <<"7", ".", "1", "7", ".", "0">>,
      <<"1", "8", ".", "3", ".", "1">>, <<"8">> }

\* str::starts_with.
StartsWith(s, prefix) ==
    /\ Len(s) >= Len(prefix)
    /\ \A i \in DOMAIN prefix : s[i] = prefix[i]

\* backup.rs 185: the floor of the reduced page size.
MinReducedSize == 1000

\* backup.rs 184-188: effective_scroll_size (u64: `/` is integer division).
SameScrollSize(version, size) == size
EffectiveScrollSize(version, size) ==
    IF StartsWith(version, <<"8", ".", "3">>)
    THEN Max(size \div 2, MinReducedSize)
    ELSE size

InitScroll ==
    /\ OrchIdle
    /\ ExportIdle
    /\ ImportIdle
    /\ BodyIdle
    /\ DiscIdle
    /\ LogIdle
    /\ es_version \in Versions
    /\ cfg_scroll_size \in 1..MaxScrollSize
    /\ effective_scroll_size = 0
    /\ open_size = 0
    /\ spc = "compute"

\* backup.rs 184-188.
SEffective ==
    /\ spc = "compute"
    /\ effective_scroll_size' = EffectiveScrollSize(es_version, cfg_scroll_size)
    /\ spc' = "request"
    /\ UNCHANGED <<orchVars, exportVars, importVars, bodyVars, es_version,
                   cfg_scroll_size, open_size, discVars, logVars>>

\* backup.rs 192-211: "size": effective_scroll_size in the body of the
\* open-cursor request, which is sent.
SOpen ==
    /\ spc = "request"
    /\ open_size' = effective_scroll_size
    /\ spc' = "sent"
    /\ UNCHANGED <<orchVars, exportVars, importVars, bodyVars, es_version,
                   cfg_scroll_size, effective_scroll_size, discVars, logVars>>

NextScroll ==
    \/ SEffective
    \/ SOpen

SpecScroll == InitScroll /\ [][NextScroll]_vars

(***************************************************************************)
(*  Selection of the collections: run_backup 19-50 with fetch_indices,    *)
(*  run_restore 20-56                                                      *)
(***************************************************************************)

\* The order of strings (String's Ord: byte by byte, a prefix first).
Code(c) == CASE c = "." -> 46 [] c = "a" -> 97 [] c = "l" -> 108 [] c = "s" -> 115
Less(x, y) ==
    \E i \in 1..(Len(y)) :
        /\ \A j \in 1..(i - 1) : j <= Len(x) /\ x[j] = y[j]
        /\ \/ i = Len(x) + 1
           \/ i <= Len(x) /\ Code(x[i]) < Code(y[i])
Range(q) == {q[i] : i \in DOMAIN q}
\* backup.rs 433: result.sort() (the names of a listing are distinct).
SortNames(q) ==
    [i \in DOMAIN q |->
        CHOOSE x \in Range(q) : Cardinality({y \in Range(q) : Less(y, x)}) = i - 1]
\* The order in which the cluster (or the directory) lists a set of names:
\* any order; here the descending one.
ListOf(S) ==
    [i \in 1..Cardinality(S) |->
        CHOOSE x \in S : Cardinality({y \in S : Less(x, y)}) = i - 1]

\* restore.rs 34: the order in which read_dir yields the entries of a
\* directory is the file system's: any order of the names.
Orders(S) ==
    {q \in [1..Cardinality(S) -> S] : \A i, j \in DOMAIN q : i # j => q[i] # q[j]}

\* backup.rs 407 / restore.rs 38: starts_with('.').
StartsWithDot(name) == StartsWith(name, <<".">>)

\* backup.rs 424: size_bytes / (1024 * 1024).
BytesPerMb == 1024 * 1024
\* What a size lookup gives (backup.rs 418-423): no response or no JSON
\* ("fail"), a body without a numeric size_in_bytes ("nosize"), or a size.
SizeNone == [k |-> "none", bytes |-> 0]
SizeOutcomes ==
    {[k |-> "fail", bytes |-> 0], [k |-> "nosize", bytes |-> 0]} \cup
    {[k |-> "bytes", bytes |-> m * BytesPerMb + d] :
        m \in 0..MaxSizeMb, d \in {0, 1, BytesPerMb - 1}}
\* backup.rs 416-430: the closure of result.retain.
KeepBySize(o) ==
    IF o.k = "bytes" THEN (o.bytes \div BytesPerMb) <= max_index_size_mb ELSE TRUE

\* backup.rs 403-413: the filter of the listing's entries.
KeepEntry(e) ==
    /\ e.named
    /\ ~(StartsWithDot(e.index) \/ e.index \in skip_indices)

\* The kinds of response to the listing request (backup.rs 349-401).
ListingErrors ==
    {"unreachable", "unreadable", "log", "not_json", "error_object", "scalar", "map_other"}
ListingKinds == ListingErrors \cup {"array", "map_indices", "map_empty"}

InitDisc ==
    /\ OrchIdle
    /\ ExportIdle
    /\ ImportIdle
    /\ BodyIdle
    /\ ScrollIdle
    /\ LogIdle
    /\ dop \in {"backup", "restore"}
    /\ specific_index \in {<<>>} \cup Names
    /\ skip_indices \in IF dop = "backup" THEN {{}, {Logs}} ELSE {{}}
    /\ max_index_size_mb \in IF dop = "backup" THEN -1..MaxThresholdMb ELSE {-1}
    /\ present \in SUBSET Names
    /\ dVersion = "none"
    /\ listing = "none"
    /\ nameless = {}
    /\ entries = <<>>
    /\ result = <<>>
    /\ retainIdx = 0
    /\ retained = <<>>
    /\ sizeOf = [n \in Names |-> SizeNone]
    /\ selected = <<>>
    /\ dpc = "start"
    /\ dResult = "running"
    /\ dErr = "none"

\* `?` and `return Err(..)`: the run returns the error.
DErrExit(cause) ==
    /\ dResult' = "err"
    /\ dErr' = cause
    /\ dpc' = "returned"
DGo(pc) ==
    /\ dpc' = pc
    /\ dResult' = dResult
    /\ dErr' = dErr

\* backup.rs 19-23: the first log line, the client, the version detection
\* (utils.rs 44-66) and its log line.  restore.rs 20: the first log line.
DStart ==
    /\ dpc = "start"
    /\ IF dop = "backup"
       THEN \E r \in {"plain", "8.3", "version", "log"} :
              IF r \in {"plain", "8.3"} THEN DGo("select") /\ dVersion' = r
              ELSE DErrExit(r) /\ dVersion' = dVersion
       ELSE /\ \E ok \in BOOLEAN : IF ok THEN DGo("select") ELSE DErrExit("log")
            /\ dVersion' = dVersion
    /\ UNCHANGED <<orchVars, exportVars, importVars, bodyVars, scrollVars,
                   dop, specific_index, skip_indices, max_index_size_mb,
                   present, listing, nameless, entries, result, retainIdx,
                   retained, sizeOf, selected, logVars>>

\* backup.rs 26-37: a named collection is asked for its count; a request
\* that fails or a non-success status returns an error.  restore.rs 25-31:
\* the named backup directory must exist.
DSelectNamed ==
    /\ dpc = "select"
    /\ specific_index # <<>>
    /\ \E r \in {"answer"} \cup (IF dop = "backup" THEN {"send"} ELSE {}) :
         IF r = "answer" /\ specific_index \in present
         THEN DGo("check") /\ selected' = <<specific_index>>
         ELSE /\ DErrExit(IF r = "send" THEN "send" ELSE "not_exist")
              /\ selected' = selected
    /\ UNCHANGED <<orchVars, exportVars, importVars, bodyVars, scrollVars,
                   dop, specific_index, skip_indices, max_index_size_mb,
                   present, dVersion, listing, nameless, entries, result,
                   retainIdx, retained, sizeOf, logVars>>

\* restore.rs 32-44: the directories of the backup directory whose names
\* do not start with '.', collected in the order read_dir yields them.
DReadDir ==
    /\ dpc = "select"
    /\ specific_index = <<>>
    /\ dop = "restore"
    /\ \E ok \in BOOLEAN :
         IF ok
         THEN /\ DGo("check")
              /\ \E q \in Orders(present) :
                   selected' = SelectSeq(q, LAMBDA n : ~StartsWithDot(n))
         ELSE DErrExit("read_dir") /\ selected' = selected
    /\ UNCHANGED <<orchVars, exportVars, importVars, bodyVars, scrollVars,
                   dop, specific_index, skip_indices, max_index_size_mb,
                   present, dVersion, listing, nameless, entries, result,
                   retainIdx, retained, sizeOf, logVars>>

\* backup.rs 347-401: the listing request.  The body must be JSON without
\* an "error" member; an array gives the entries; an object is accepted
\* only from a version 8.3 and only if empty (no collections) or holding
\* an "indices" array.  An entry may lack the "index" string.
DList ==
    /\ dpc = "select"
    /\ specific_index = <<>>
    /\ dop = "backup"
    /\ \E kind \in ListingKinds :
         /\ listing' = kind
         /\ CASE kind \in ListingErrors ->
                   /\ DErrExit(kind)
                   /\ UNCHANGED <<nameless, entries, selected>>
              [] kind = "array" ->
                   \E bad \in SUBSET present :
                     /\ DGo("filter")
                     /\ nameless' = bad
                     /\ entries' = [i \in 1..Cardinality(present) |->
                                      [index |-> ListOf(present)[i],
                                       named |-> ListOf(present)[i] \notin bad]]
                     /\ selected' = selected
              [] kind = "map_indices" ->
                   IF dVersion = "8.3"
                   THEN /\ DGo("filter")
                        /\ entries' = [i \in 1..Cardinality(present) |->
                                         [index |-> ListOf(present)[i], named |-> TRUE]]
                        /\ UNCHANGED <<nameless, selected>>
                   ELSE DErrExit("format") /\ UNCHANGED <<nameless, entries, selected>>
              [] kind = "map_empty" ->
                   IF dVersion = "8.3"
                   THEN \E ok \in BOOLEAN :
                          /\ IF ok THEN DGo("check") ELSE DErrExit("log")
                          /\ selected' = <<>>
                          /\ UNCHANGED <<nameless, entries>>
                   ELSE DErrExit("format") /\ UNCHANGED <<nameless, entries, selected>>
    /\ UNCHANGED <<orchVars, exportVars, importVars, bodyVars, scrollVars,
                   dop, specific_index, skip_indices, max_index_size_mb,
                   present, dVersion, result, retainIdx, retained, sizeOf,
                   logVars>>

\* backup.rs 403-415: the entries without a name, with a name that starts
\* with '.' or with a skip-listed name are dropped.
DFilter ==
    /\ dpc = "filter"
    /\ LET passed == SelectSeq(entries, KeepEntry)
       IN  result' = [i \in DOMAIN passed |-> passed[i].index]
    /\ retainIdx' = 1
    /\ retained' = <<>>
    /\ DGo(IF max_index_size_mb = -1 THEN "sort" ELSE "retain")
    /\ UNCHANGED <<orchVars, exportVars, importVars, bodyVars, scrollVars,
                   dop, specific_index, skip_indices, max_index_size_mb,
                   present, dVersion, listing, nameless, entries, sizeOf,
                   selected, logVars>>

\* backup.rs 416-430: one call of retain's closure: the size lookup of
\* one collection, and whether it stays.
DSize ==
    /\ dpc = "retain"
    /\ retainIdx <= Len(result)
    /\ \E o \in SizeOutcomes :
         /\ sizeOf' = [sizeOf EXCEPT ![result[retainIdx]] = o]
         /\ retained' = IF KeepBySize(o) THEN Append(retained, result[retainIdx]) ELSE retained
    /\ retainIdx' = retainIdx + 1
    /\ UNCHANGED <<orchVars, exportVars, importVars, bodyVars, scrollVars,
                   dop, specific_index, skip_indices, max_index_size_mb,
                   present, dVersion, listing, nameless, entries, result,
                   selected, dpc, dResult, dErr, logVars>>

\* backup.rs 430-431: retain is over.
DRetainDone ==
    /\ dpc = "retain"
    /\ retainIdx > Len(result)
    /\ result' = retained
    /\ DGo("sort")
    /\ UNCHANGED <<orchVars, exportVars, importVars, bodyVars, scrollVars,
                   dop, specific_index, skip_indices, max_index_size_mb,
                   present, dVersion, listing, nameless, entries, retainIdx,
                   retained, sizeOf, selected, logVars>>

\* backup.rs 433-434 and 38: the sorted list is returned to run_backup.
DSort ==
    /\ dpc = "sort"
    /\ selected' = SortNames(result)
    /\ DGo("check")
    /\ UNCHANGED <<orchVars, exportVars, importVars, bodyVars, scrollVars,
                   dop, specific_index, skip_indices, max_index_size_mb,
                   present, dVersion, listing, nameless, entries, result,
                   retainIdx, retained, sizeOf, logVars>>

\* backup.rs 41-50 / restore.rs 47-56: an empty list returns Ok at once;
\* otherwise the tasks of the listed collections are about to start.
DCheck ==
    /\ dpc = "check"
    /\ \E ok \in BOOLEAN :
         IF ~ok THEN DErrExit("log")
         ELSE IF selected = <<>>
              THEN dResult' = "ok" /\ dErr' = dErr /\ dpc' = "returned"
              ELSE DGo("loop")
    /\ UNCHANGED <<orchVars, exportVars, importVars, bodyVars, scrollVars,
                   dop, specific_index, skip_indices, max_index_size_mb,
                   present, dVersion, listing, nameless, entries, result,
                   retainIdx, retained, sizeOf, selected, logVars>>

NextDisc ==
    \/ DStart
    \/ DSelectNamed
    \/ DReadDir
    \/ DList
    \/ DFilter
    \/ DSize
    \/ DRetainDone
    \/ DSort
    \/ DCheck

SpecDisc == InitDisc /\ [][NextDisc]_vars

(***************************************************************************)
(*        The shared log: utils.rs log, on the file main.rs opens          *)
(***************************************************************************)

\* write_all hands the line to the file in one or more writes: here the line
\* of call n of task t reaches the file as two pieces, part 1 then part 2.
Piece(t, n, p) == [task |-> t, call |-> n, part |-> p]

\* A log that is used without taking the mutex.
LogMutexNotTaken == TRUE
\* utils.rs 19: log_file.lock() returns when no other thread holds the mutex.
LogMutexFree == logMutex = 0

\* main.rs 68-70: the log file is open (append mode) and in its mutex; the
\* tasks have not logged yet.  What the file held before plays no part.
InitLog ==
    /\ OrchIdle
    /\ ExportIdle
    /\ ImportIdle
    /\ BodyIdle
    /\ ScrollIdle
    /\ DiscIdle
    /\ logMutex = 0
    /\ logContent = <<>>
    /\ lpc = [t \in LogTasks |-> "idle"]
    /\ lcalls = [t \in LogTasks |-> 0]
    /\ lResults = [t \in LogTasks |-> <<>>]

\* The number of log calls the tasks 1..t have begun.
RECURSIVE CallsBegun(_)
CallsBegun(t) == IF t = 0 THEN 0 ELSE lcalls[t] + CallsBegun(t - 1)

\* utils.rs 16-18: a task calls log; the line is formatted.  A run is
\* followed for MaxLogCalls calls, whichever tasks make them.
LCall(t) ==
    /\ lpc[t] = "idle"
    /\ CallsBegun(MaxLogTasks) < MaxLogCalls
    /\ lcalls' = [lcalls EXCEPT ![t] = @ + 1]
    /\ lpc' = [lpc EXCEPT ![t] = "lock"]
    /\ UNCHANGED <<orchVars, exportVars, importVars, bodyVars, scrollVars,
                   discVars, logMutex, logContent, lResults>>

\* utils.rs 19: let mut file = log_file.lock().unwrap().
LLock(t) ==
    /\ lpc[t] = "lock"
    /\ LogMutexFree
    /\ logMutex' = t
    /\ lpc' = [lpc EXCEPT ![t] = "write_1"]
    /\ UNCHANGED <<orchVars, exportVars, importVars, bodyVars, scrollVars,
                   discVars, logContent, lcalls, lResults>>

\* log returns: the guard `file` drops, which frees the mutex.
LReturn(t, res) ==
    /\ logMutex' = IF logMutex = t THEN 0 ELSE logMutex
    /\ lResults' = [lResults EXCEPT ![t] = Append(@, res)]
    /\ lpc' = [lpc EXCEPT ![t] = "idle"]

\* utils.rs 20: file.write_all(..)?: the next piece of the line is appended
\* to the file, or the write fails and `?` returns the error.
LWrite(t) ==
    /\ lpc[t] \in {"write_1", "write_2"}
    /\ \E written \in BOOLEAN :
         IF written
         THEN /\ logContent' = Append(logContent,
                     Piece(t, lcalls[t], IF lpc[t] = "write_1" THEN 1 ELSE 2))
              /\ lpc' = [lpc EXCEPT ![t] =
                           IF lpc[t] = "write_1" THEN "write_2" ELSE "flush"]
              /\ UNCHANGED <<logMutex, lResults>>
         ELSE /\ LReturn(t, "err")
              /\ UNCHANGED logContent
    /\ UNCHANGED <<orchVars, exportVars, importVars, bodyVars, scrollVars,
                   discVars, lcalls>>

\* utils.rs 21-23: file.flush()?; Ok(()).
LFlush(t) ==
    /\ lpc[t] = "flush"
    /\ \E flushed \in BOOLEAN : LReturn(t, IF flushed THEN "ok" ELSE "err")
    /\ UNCHANGED <<orchVars, exportVars, importVars, bodyVars, scrollVars,
                   discVars, logContent, lcalls>>

NextLog ==
    \/ \E t \in LogTasks : LCall(t)
    \/ \E t \in LogTasks : LLock(t)
    \/ \E t \in LogTasks : LWrite(t)
    \/ \E t \in LogTasks : LFlush(t)

SpecLog == InitLog /\ [][NextLog]_vars

(***************************************************************************)
(*   Round trip: backup_index of a collection, then restore_data of the    *)
(*   files it wrote, into an empty collection                              *)
(***************************************************************************)

\* The collection does not change during the export: the count read at the
\* start is the number of documents of the snapshot.
InitRoundTrip ==
    /\ InitExport
    /\ doc_count = srvDocs

\* What restore_data finds in the directory that the export task left
\* (backup.rs 226-228 and 314-318; restore.rs 137-155): the data file, and
\* its compressed sibling if the build compresses (`gzip -k` keeps both).
FilesLeft ==
    IF ~fileExists THEN "none" ELSE IF compression THEN "both" ELSE "plain"

\* The export task has returned Ok; the import task of the same directory
\* starts (restore.rs 130-136), with any configured batch size.
StartImport ==
    /\ epc = "returned"
    /\ expResult = "ok"
    /\ ipc = "idle"
    /\ srcFiles' = FilesLeft
    /\ dataFile' = fileContent
    /\ fileDocs' = Len(DocsOf(fileContent))
    /\ bulk_batch_size' \in 1..MaxBatch
    /\ ipc' = "locate"
    /\ bulkResp' = NoResponse
    /\ impErr' = NoError
    /\ UNCHANGED <<orchVars, exportVars, documents, batch_num, bulkSent,
                   cluster, impResult, errLog, ipb_len, ipb_pos, bodyVars,
                   scrollVars, discVars, logVars>>

NextRoundTrip ==
    \/ NextExport
    \/ StartImport
    \/ NextImport

SpecRoundTrip == InitRoundTrip /\ [][NextRoundTrip]_vars

(***************************************************************************)
(*          Properties of the orchestrators (specification Spec)          *)
(***************************************************************************)

\* A thread is between `*active += 1` and `*active -= 1`.
ActivePcs == {"log_start", "logw_start", "task_map", "task_data", "log_error",
              "logw_error", "lock_end"}
\* A thread is inside backup_index / restore_index.
InTask(w) == wpc[w] \in {"task_map", "task_data"}
\* A thread is at a collection of its chunk.
Busy(w) == wChunk[w] # 0 /\ wPos[w] \in 1..ChunkLen(wChunk[w])

\* C1: in run_backup the active_indices counter is the number of collections
\* whose iteration is between its increment and its decrement, it is at least
\* 0 and at most max_parallel_indices in every state, no more than that many
\* backup tasks run at once, and it is 0 when run_backup returns.
C1_ActiveBounded ==
    operation = "backup" =>
        /\ active_indices = Cardinality({w \in Threads : wpc[w] \in ActivePcs})
        /\ active_indices >= 0
        /\ active_indices <= max_parallel_indices
        /\ Cardinality({w \in Threads : InTask(w)}) <= max_parallel_indices
        /\ (runReturned => active_indices = 0)

\* C1 witness: the bound is reached by two backup tasks running at once.
C1_Witness ==
    /\ operation = "backup"
    /\ max_parallel_indices = 2
    /\ active_indices = 2
    /\ Cardinality({w \in Threads : InTask(w)}) = 2

\* C2: in run_restore no more than max_parallel_indices
\* collections are being restored at the same time.
C2_RestoreBounded ==
    operation = "restore" =>
        Cardinality({w \in Threads : InTask(w)}) <= max_parallel_indices

\* C3: every selected collection's task is started at most once in any state
\* and exactly once by the time the run returns, whatever the results of the
\* other tasks; and a step changes the result, the data file or the cursor of
\* a collection only if it is a step of the thread running that collection.
C3_Isolation ==
    [][ /\ \A c \in Collections : started'[c] <= 1
        /\ runReturned' =>
             \A c \in 1..indices : started'[c] = 1 /\ taskResult'[c] \in {"ok", "err"}
        /\ \A c \in Collections :
             ( \/ taskResult'[c] # taskResult[c]
               \/ dataFiles'[DataPath(c)] # dataFiles[DataPath(c)]
               \/ cursors'[c] # cursors[c]
               \/ restored'[c] # restored[c] )
             => \E w \in Threads : Busy(w) /\ Cur(w) = c /\ wpc'[w] # wpc[w]
      ]_vars

\* C3 witness: the run has returned, the first collection of a chunk failed
\* and the next collection of the same chunk was still processed, to success.
C3_Witness ==
    /\ runReturned
    /\ max_parallel_indices >= 2
    /\ indices >= 2
    /\ taskResult[1] = "err"
    /\ taskResult[2] = "ok"
    /\ started[2] = 1

\* C20: run_backup and run_restore return success once every collection
\* task has run to an outcome, whatever those outcomes are, even if every
\* task failed: the top-level result is never an error caused by a task
\* (the only error after the loop is a failed write of the last log line).
C20_RunSucceedsDespiteFailures ==
    runReturned =>
        /\ \A c \in 1..indices : taskResult[c] \in {"ok", "err"}
        /\ runResult \in {"ok", "log_err"}
        /\ completed_indices = indices

\* C20 witness: every collection's task failed and the run returned Ok.
C20_Witness ==
    /\ runReturned
    /\ indices >= 2
    /\ \A c \in 1..indices : taskResult[c] = "err"
    /\ runResult = "ok"

\* C21: if every collection task terminates, the run terminates with the
\* completed counter equal to the number of selected collections; the
\* counter goes up by exactly one at a time, only under its mutex, once per
\* collection whether its task succeeded or failed, and the aggregate
\* progress position never decreases and never exceeds the total.
C21_CompletedCounter ==
    /\ [](/\ completed_indices <= indices
          /\ pb_main <= indices
          /\ completed_indices
               = Cardinality({c \in 1..indices :
                     /\ taskResult[c] \in {"ok", "err"}
                     /\ \A w \in Threads :
                          (wChunk[w] # 0 /\ Cur(w) = c)
                              => wpc[w] \in {"iter_end", "next", "idle"}}))
    /\ [][/\ pb_main' >= pb_main
          /\ completed_indices' # completed_indices
               => /\ completed_indices' = completed_indices + 1
                  /\ completedLock = 0
                  /\ completedLock' # 0]_vars
    /\ <>(runReturned /\ completed_indices = indices /\ pb_main = indices)

\* C21 witness: the run has returned with the counter at the number of
\* collections, after tasks of two chunks both succeeded and failed.
C21_Witness ==
    /\ runReturned
    /\ indices >= 2
    /\ max_parallel_indices = 1
    /\ cpus >= 2
    /\ completed_indices = indices
    /\ \E c, d \in 1..indices : taskResult[c] = "ok" /\ taskResult[d] = "err"

\* The places (chunk, position) of the partition that hold collection c.
PlacesOf(c) ==
    {p \in Chunks \X (1..MaxParallel) :
        /\ p[1] <= NumChunks
        /\ p[2] <= ChunkLen(p[1])
        /\ ChunkItem(p[1], p[2]) = c}

\* C26: a worker processes the collections of its chunk one at a time in
\* list order: a collection's task starts only after the task of the
\* previous collection of the chunk has finished; every collection belongs
\* to exactly one chunk (and a chunk to one worker, so no task starts
\* twice); and within a collection the data step starts only when the
\* mapping step has finished, on the same worker.
C26_Sequential ==
    /\ [](/\ \A c \in 1..indices :
               /\ Cardinality(PlacesOf(c)) = 1
               /\ started[c] <= 1
          /\ \A w, v \in Threads :
               (w # v /\ wChunk[w] # 0) => wChunk[w] # wChunk[v]
          /\ \A w \in Threads :
               wChunk[w] # 0 =>
                 \A j \in 1..ChunkLen(wChunk[w]) :
                   LET c == ChunkItem(wChunk[w], j) IN
                     /\ j < wPos[w] => taskResult[c] \in {"ok", "err"}
                     /\ j > wPos[w] => taskResult[c] = "none" /\ started[c] = 0)
    /\ [][/\ \A w \in Threads :
               (wpc'[w] = "task_data" /\ wpc[w] # "task_data")
                  => /\ wpc[w] = "task_map"
                     /\ wChunk'[w] = wChunk[w]
                     /\ wPos'[w] = wPos[w]
          /\ \A c \in 1..indices :
               taskResult'[c] # taskResult[c]
                  => \E w \in Threads :
                        /\ Busy(w)
                        /\ Cur(w) = c
                        /\ wpc'[w] # wpc[w]
                        /\ \A v \in Threads \ {w} : wpc'[v] = wpc[v]
                        /\ taskResult[c] = "none" => wpc'[w] = "task_map"
                        /\ taskResult[c] = "running" => InTask(w)]_vars

\* C26 witness: a worker is in the data step of the second collection of
\* its chunk after the first one's task finished, while another worker is
\* in the mapping step of a collection of another chunk.
C26_Witness ==
    \E w, v \in Threads :
       /\ w # v
       /\ wPos[w] = 2
       /\ wpc[w] = "task_data"
       /\ taskResult[ChunkItem(wChunk[w], 1)] \in {"ok", "err"}
       /\ wpc[v] = "task_map"
       /\ wChunk[v] # 0
       /\ wChunk[v] # wChunk[w]

\* The mutex a thread is about to take ("none": it is not at a lock call).
Wants(w) ==
    CASE wpc[w] = "next" /\ operation = "backup" /\ Busy(w) -> "active"
      [] wpc[w] = "lock_end" -> "active"
      [] wpc[w] \in LogPcs \cup {"task_map", "task_data"} -> "log"
      [] wpc[w] = "lock_completed" -> "completed"
      [] OTHER -> "none"
\* The thread that holds a mutex (0: it is free).
Holder(m) ==
    CASE m = "active" -> activeLock
      [] m = "log" -> logLock
      [] m = "completed" -> completedLock
      [] OTHER -> 0
\* The threads of D wait for mutexes that threads of D hold.
WaitCycle(D) == \A w \in D : Wants(w) # "none" /\ Holder(Wants(w)) \in D

\* C27: run_backup never deadlocks: in no reachable state is there a set of
\* threads each waiting for a mutex that a thread of the set holds (a
\* thread waiting for a mutex it holds itself included); a thread that
\* holds a mutex is at a statement of the loop body that can go on to the
\* release; and a thread that starts its next collection, or has none left,
\* holds none of the three mutexes.
C27_NoDeadlock ==
    operation = "backup" =>
        /\ \A D \in (SUBSET Threads) \ {{}} : ~WaitCycle(D)
        /\ \A w \in Threads :
             wpc[w] \in {"next", "idle"}
                => activeLock # w /\ logLock # w /\ completedLock # w
        /\ \A w \in Threads :
             /\ logLock = w => wpc[w] \in {"logw_start", "logw_error", "logw_end"}
             /\ completedLock = w => wpc[w] = "iter_end"
             /\ activeLock = w
                   => wpc[w] \in {"log_start", "logw_start", "log_end", "logw_end",
                                  "lock_completed", "iter_end"}
        /\ (~runReturned) => ENABLED Next

\* C27 witness: a thread that holds the mutex of active_indices waits
\* inside log for the log mutex, which another thread holds while it writes
\* an error line.
C27_Witness ==
    /\ operation = "backup"
    /\ \E w, v \in Threads :
         /\ w # v
         /\ activeLock = w
         /\ wpc[w] \in {"log_start", "log_end"}
         /\ logLock = v
         /\ wpc[v] = "logw_error"

(***************************************************************************)
(*        Properties of the export task (specification SpecExport)        *)
(***************************************************************************)

\* The first n documents of the snapshot, reduced, as the file holds them.
SnapshotDocs(n) == [i \in 1..n |-> DocToken(reduce_document_size(Hit(i)))]

\* backup_data has returned Ok (backup_index is at, or past, its last line).
DataOk == epc = "index_log" \/ (epc = "returned" /\ expErr \in {"none", "index_log"})
TaskReturned == epc = "returned"

\* C4: when the count read at the start equals the N > 0 documents of the
\* snapshot and the page size is P, a backup_data that returns Ok has written
\* exactly the N documents to the data file in snapshot order, has received
\* ceil(N/P) non-empty pages of min(P, what is left) documents followed by
\* one empty page, and in no state has it read on after an empty page.
C4_ExportPages ==
    (doc_count = srvDocs /\ srvDocs > 0) =>
        /\ \A i \in 1..(Len(pages) - 1) : pages[i] > 0
        /\ DataOk =>
             /\ DocsOf(fileContent) = SnapshotDocs(srvDocs)
             /\ total_docs = srvDocs
             /\ Len(pages) = CeilDiv(srvDocs, scroll_size) + 1
             /\ \A i \in 1..CeilDiv(srvDocs, scroll_size) :
                  pages[i] = Min(scroll_size, srvDocs - (i - 1) * scroll_size)
             /\ pages[Len(pages)] = 0

\* C4 witness: five documents in pages of two: 2, 2, 1, then the empty page.
C4_Witness ==
    /\ DataOk
    /\ doc_count = srvDocs
    /\ srvDocs = 5
    /\ scroll_size = 2
    /\ pages = <<2, 2, 1, 0>>
    /\ Len(DocsOf(fileContent)) = 5

\* C6 (as claimed): a task that received a token has issued a release
\* request for its current token by the time it returns, on every exit.
C6_ReleasedOnEveryExit ==
    (TaskReturned /\ scroll_id # 0) =>
        \E i \in DOMAIN sent : sent[i] = ReleaseRequest(scroll_id)

\* C7: every continuation and release request carries the token the cluster
\* issued last (never one that a later response replaced), the release is
\* sent at most once, and nothing is sent after it.
C7_TokenFresh ==
    [][ /\ \A i \in (Len(sent) + 1)..Len(sent') :
             sent'[i].op # "open" => sent'[i].token = srvToken /\ srvToken > 0
        /\ \A i \in DOMAIN sent : sent[i].op = "release" => sent' = sent
        /\ Cardinality({i \in DOMAIN sent' : sent'[i].op = "release"}) <= 1
      ]_vars

\* C7 witness: two continuations, each with the token of the response
\* before it, then the release with the last token.
C7_Witness ==
    /\ Len(sent) >= 4
    /\ sent[2] = ContinueRequest(1)
    /\ sent[3] = ContinueRequest(2)
    /\ sent[Len(sent)].op = "release"
    /\ sent[Len(sent)].token = Len(sent) - 1

\* The last token of the file is a comma.
TrailingComma == fileContent # <<>> /\ fileContent[Len(fileContent)] = Comma
\* No comma follows the opening bracket or another comma.
NoLeadingOrDoubledComma ==
    \A i \in 2..Len(fileContent) :
        fileContent[i] = Comma => fileContent[i - 1].k = "doc"
\* The page stream is exhausted: the loop was not entered or has met the
\* empty page.
LastPageSeen == pages # <<>> /\ pages[Len(pages)] = 0

\* C8 (as claimed): in every state of an export task the data file it
\* created holds the opening bracket exactly once, the closing bracket at
\* most once and only after the last page, and no leading, trailing or
\* doubled comma; a task that opened a cursor and returns success leaves a
\* well-formed array.
C8_BracketsAsClaimed ==
    fileCreated =>
        /\ CountOf(fileContent, "[") = 1
        /\ CountOf(fileContent, "]") <= 1
        /\ CountOf(fileContent, "]") = 1 => LastPageSeen
        /\ NoLeadingOrDoubledComma
        /\ ~TrailingComma
        /\ (DataOk /\ scroll_id # 0) => Complete(fileContent)

\* C8 (amended): the data file the task created is in every state a prefix
\* of the array of its documents, "[" doc ("," doc)* "]": the opening bracket
\* at most once and first (absent only until the write of line 232 has
\* succeeded), the closing bracket at most once, last, and only after the
\* last page, one comma between two documents, no leading or doubled comma,
\* a trailing comma only while the document after it is still to be written
\* or after its write failed; a task that opened a cursor and returns
\* success leaves a well-formed array.
C8_BracketsAmended ==
    fileCreated =>
        /\ PrefixOfArray(fileContent)
        /\ CountOf(fileContent, "[") <= 1
        /\ CountOf(fileContent, "[") = 0 =>
             \/ epc \in {"hits", "write_open"}
             \/ (TaskReturned /\ expErr \in {"parse", "io"})
        /\ CountOf(fileContent, "]") <= 1
        /\ CountOf(fileContent, "]") = 1 => LastPageSeen
        /\ NoLeadingOrDoubledComma
        /\ TrailingComma =>
             \/ epc \in {"first_doc", "page_doc"}
             \/ (TaskReturned /\ expErr = "io")
        /\ (DataOk /\ scroll_id # 0) => Complete(fileContent)

\* C8 witness: a task that read three pages has returned success and its
\* file is the array of the three documents.
C8_Witness ==
    /\ TaskReturned
    /\ expResult = "ok"
    /\ pages = <<1, 1, 1, 0>>
    /\ fileContent = ArrayOf(SnapshotDocs(3))

\* C9 (as claimed): the data file is created at the start of the task, and
\* whenever the task returns an error the data file present for the
\* collection is not a complete array.
C9_CompleteOnlyOnSuccess ==
    /\ epc \notin {"start", "returned"} => fileCreated
    /\ (TaskReturned /\ expResult = "err" /\ fileExists) => ~Complete(fileContent)

\* C13: when the document count read at the start of the task is 0, the
\* task that returns success has written an empty completed result (the
\* data file holds the empty array) and has sent no open-cursor,
\* continuation or release request.
C13_EmptyResultWritten ==
    (doc_count = 0 /\ TaskReturned /\ expResult = "ok") =>
        /\ sent = <<>>
        /\ fileExists
        /\ fileContent = <<LBracket, RBracket>>

\* The part of C13 that the code keeps: with a count of 0 no cursor request
\* is ever sent and no cursor is opened.
C13_NoCursorWhenEmpty ==
    doc_count = 0 => (sent = <<>> /\ srvCursor = "none" /\ ~fileCreated)

\* C19: if the mapping fetch of an export task fails (request error,
\* non-success status, or unreadable mapping), the task returns an error
\* and its data step never starts: no cursor request, no data file.
C19_MappingFailureStopsTask ==
    (mappingStatus = "non2xx" \/ expErr = "mapping") =>
        /\ epc = "returned"
        /\ expResult = "err"
        /\ sent = <<>>
        /\ ~fileCreated

\* The part of C19 that the code keeps for the export: when backup_mapping
\* returns an error (request not sent, body not JSON, mapping file or log
\* not written), the task returns it and the data step never starts.
C19_MappingErrorStopsTask ==
    expErr = "mapping" =>
        /\ epc = "returned"
        /\ expResult = "err"
        /\ sent = <<>>
        /\ ~fileCreated
        /\ srvCursor = "none"

\* The mapping response had a non-success status, and the task went on to
\* open a cursor, wrote the data file and returned success.
C19_DataStepAfterFailedMapping ==
    /\ mappingStatus = "non2xx"
    /\ sent # <<>>
    /\ fileCreated
    /\ epc = "returned"
    /\ expResult = "ok"

\* The number of documents backup_data has written to the data file so far.
DocsWritten == IF fileCreated THEN Len(DocsOf(fileContent)) ELSE 0

\* C24: in backup_data the progress bound is set once, to the document count
\* read at the start of the task, and never changed afterwards; in every
\* state the progress position is the number of documents written to the
\* data file so far, and it advances by exactly one per document written.
C24_ProgressFollowsDocuments ==
    /\ [](/\ pb_pos = DocsWritten
          /\ pb_len \in {0, doc_count}
          /\ epc \notin {"start", "count", "empty", "returned", "index_log"}
                => pb_len = doc_count)
    /\ [][/\ pb_len' # pb_len => (epc = "count" /\ pb_len' = doc_count)
          /\ pb_pos' # pb_pos => (pb_pos' = pb_pos + 1 /\ DocsWritten' = DocsWritten + 1)
          /\ DocsWritten' # DocsWritten => pb_pos' = pb_pos + 1]_vars

\* C24 witness: the task has returned success after writing several pages,
\* more documents than the count read at the start: the position is the
\* number written, the bound is the count.
C24_Witness ==
    /\ TaskReturned
    /\ expResult = "ok"
    /\ pb_len = doc_count
    /\ doc_count = 2
    /\ pb_pos = 3
    /\ Len(pages) >= 2
    /\ DocsWritten = 3

(***************************************************************************)
(*        Properties of the import task (specification SpecImport)        *)
(***************************************************************************)

ImportReturned == ipc = "returned"
\* The documents at the array positions lo..hi (0-based, as restore.rs counts them).
FileSlice(lo, hi) == [i \in 1..(hi - lo + 1) |-> FileArray[lo + i]]

\* C5: for a data file of N documents and batch size B, the i-th bulk
\* request has sequence number i and holds the documents at the array
\* positions (i-1)*B .. min(i*B, N)-1 in file order; a restore_data that
\* returns Ok has sent exactly ceil(N/B) requests, all but the last of B
\* documents and the last of N mod B (or B); with N = 0 no request is ever
\* sent and the empty-array exit returns Ok (unless its log line fails).
C5_Batches ==
    /\ \A i \in DOMAIN bulkSent :
         /\ bulkSent[i].seq = i
         /\ bulkSent[i].docs =
              FileSlice((i - 1) * bulk_batch_size, Min(i * bulk_batch_size, fileDocs) - 1)
    /\ impResult = "ok" =>
         /\ Len(bulkSent) = CeilDiv(fileDocs, bulk_batch_size)
         /\ \A i \in 1..(Len(bulkSent) - 1) : Len(bulkSent[i].docs) = bulk_batch_size
         /\ fileDocs > 0 =>
              Len(bulkSent[Len(bulkSent)].docs) =
                 IF fileDocs % bulk_batch_size = 0 THEN bulk_batch_size
                 ELSE fileDocs % bulk_batch_size
    /\ fileDocs = 0 =>
         /\ bulkSent = <<>>
         /\ (ImportReturned /\ documents = FileArray /\ impErr.kind \notin {"log", "read", "gunzip", "not_found"})
              => impResult = "ok"

\* C5 witness: five documents in batches of two: 2, 2, 1, and Ok.
C5_Witness ==
    /\ impResult = "ok"
    /\ fileDocs = 5
    /\ bulk_batch_size = 2
    /\ Len(bulkSent) = 3
    /\ Len(bulkSent[1].docs) = 2
    /\ Len(bulkSent[2].docs) = 2
    /\ IdsOf(bulkSent[3].docs) = {5}

\* C10: when a bulk response has a non-success status,
\* restore_data returns an error that carries the status and the body.
C10_ErrorCarriesStatusAndBody ==
    (ImportReturned /\ bulkResp.status \in {"4xx", "5xx"}) =>
        impResult = "err" /\ impErr = BulkError(bulkResp)

\* The part of C10 that the code keeps: after a non-success status
\* restore_data returns an error (the one that carries the status and the
\* body if the body can be read, the error of reading the body otherwise),
\* and no later batch is sent: a request is sent only as the first one or after
\* a success status of the one before it, every request is the next one in
\* sequence (none twice), and the accepted documents stay accepted.
C10_BulkFailureStops ==
    [][ /\ (ImportReturned' /\ bulkResp'.status \in {"4xx", "5xx"}) =>
             /\ impResult' = "err"
             /\ impErr' \in {BulkError(bulkResp'), OtherError("body")}
        /\ bulkSent' # bulkSent =>
             /\ bulkSent = <<>> \/ bulkResp.status = "2xx"
             /\ bulkSent' = Append(bulkSent, bulkSent'[Len(bulkSent')])
             /\ bulkSent'[Len(bulkSent')].seq = Len(bulkSent) + 1
             /\ \A i \in DOMAIN bulkSent :
                  IdsOf(bulkSent[i].docs) \cap IdsOf(bulkSent'[Len(bulkSent')].docs) = {}
        /\ cluster \subseteq cluster'
        /\ ImportReturned => bulkSent' = bulkSent
      ]_vars

\* The case of C10 with a readable body: the second batch was refused; the task has returned the
\* error with the status and the body, the first batch stays accepted and
\* the third batch was never sent.
C10_RefusedSecondBatch ==
    /\ ImportReturned
    /\ fileDocs = 5
    /\ bulk_batch_size = 2
    /\ Len(bulkSent) = 2
    /\ bulkResp.status = "5xx"
    /\ impErr = BulkError(bulkResp)
    /\ cluster = {1, 2}

\* C11: when a bulk response has a success status and its error flag is
\* set (some items were refused), the batch is not aborted: unless the flag
\* could not be read (body unreadable or unparsable) or the log write
\* fails, the step logs one list holding the descriptions of the first
\* five refused items in item order (all of them if fewer), the progress
\* and the batch index advance by one and the task goes on to the next
\* batch; item errors never make restore_data return a bulk error, and a
\* task that returns Ok has sent every batch.
C11_PartialFailureGoesOn ==
    [][ (ipc = "response" /\ bulkResp.status = "2xx" /\ bulkResp.rejected # {}
           /\ ipc' # ipc) =>
          \/ /\ ipc' = "returned"
             /\ impResult' = "err"
             /\ impErr'.kind \in {"log", "body", "parse"}
          \/ /\ ipc' = "batch"
             /\ impResult' = "running"
             /\ batch_num' = batch_num + 1
             /\ ipb_pos' = ipb_pos + 1
             /\ Len(errLog') = Len(errLog) + 1
             /\ LET e == errLog'[Len(errLog')]
                IN  /\ Len(e) = Min(5, Cardinality(bulkResp.rejected))
                    /\ \A i \in DOMAIN e :
                         /\ e[i] \in bulkResp.rejected
                         /\ Cardinality({x \in bulkResp.rejected : x < e[i]}) = i - 1
      ]_vars

\* C11 witness: six items of the first batch were refused, five of them
\* were logged, the second batch was sent and restore_data returned Ok.
C11_Witness ==
    /\ impResult = "ok"
    /\ fileDocs = 7
    /\ bulk_batch_size = 6
    /\ errLog = << <<1, 2, 3, 4, 5>> >>
    /\ Len(bulkSent) = 2
    /\ ipb_pos = 2
    /\ cluster = {7}

\* C25: in restore_data the progress bound is the expected batch count
\* ceil(N/B) of the N documents read and the batch size B; the position
\* advances by exactly one per completed batch, never per document; it
\* never exceeds the bound and it equals the bound when the import returns
\* success.
C25_ProgressFollowsBatches ==
    /\ [](/\ ipb_pos = batch_num
          /\ ipb_pos <= ipb_len
          /\ ipb_len \in {0, CeilDiv(Len(documents), bulk_batch_size)}
          /\ (ImportReturned /\ impResult = "ok")
                => /\ ipb_pos = ipb_len
                   /\ ipb_len = CeilDiv(Len(documents), bulk_batch_size)
                   /\ Len(documents) = fileDocs)
    /\ [][/\ ipb_pos' # ipb_pos
               => /\ ipb_pos' = ipb_pos + 1
                  /\ ipc = "response"
                  /\ Len(bulkSent) = ipb_pos'
          /\ ipb_len' # ipb_len => ipb_pos = 0]_vars

\* C25 witness: five documents restored in batches of two: the import
\* returned success with the position at the bound, three.
C25_Witness ==
    /\ ImportReturned
    /\ impResult = "ok"
    /\ Len(documents) = 5
    /\ bulk_batch_size = 2
    /\ ipb_len = 3
    /\ ipb_pos = 3

(***************************************************************************)
(*       Properties of the bulk request body (specification SpecBody)      *)
(***************************************************************************)

\* C12: the body built for a batch of k documents has exactly 2k lines:
\* for every document of the batch in order, its action line (collection
\* and identifier) immediately followed by its source line.
C12_BodyAlternates ==
    bpc = "built" =>
        /\ Len(bulk_body) = 2 * Len(chunk)
        /\ \A i \in DOMAIN chunk :
             /\ bulk_body[2 * i - 1] = [k |-> "action", index |-> "c", id |-> chunk[i].id]
             /\ bulk_body[2 * i] = [k |-> "source", index |-> "c", id |-> chunk[i].id]

\* The case in which the body is as C12 says: every document of the batch
\* has an object as its "_source".
C12_HoldsWithSources ==
    (bpc = "built" /\ \A i \in DOMAIN chunk : chunk[i].src = "object") =>
        /\ Len(bulk_body) = 2 * Len(chunk)
        /\ \A i \in DOMAIN chunk :
             /\ bulk_body[2 * i - 1] = [k |-> "action", index |-> "c", id |-> chunk[i].id]
             /\ bulk_body[2 * i] = [k |-> "source", index |-> "c", id |-> chunk[i].id]

(***************************************************************************)
(*       Properties of the round trip (specification SpecRoundTrip)        *)
(***************************************************************************)

\* The documents of collection X: identifier and source of every hit.
SourceCollection == {[id |-> Hit(i).id, source |-> Hit(i).source] : i \in 1..srvDocs}
\* The documents the target collection holds: those of the bulk requests
\* that the cluster accepted, with the source they were sent with.
SentDocs ==
    UNION {{bulkSent[j].docs[i] : i \in DOMAIN bulkSent[j].docs} : j \in DOMAIN bulkSent}
TargetCollection ==
    {[id |-> d.id, source |-> d.source] : d \in {x \in SentDocs : x.id \in cluster}}

\* C14: when the export of an unchanged collection X and the import of the
\* files it produced have both returned success, the target collection
\* holds exactly the identifiers and sources of X.
C14_RoundTrip ==
    (expResult = "ok" /\ impResult = "ok") => TargetCollection = SourceCollection

\* The round trip of a non-empty collection is exact when, in addition, no
\* bulk response reported item errors.
C14_ExactWithoutItemErrors ==
    (expResult = "ok" /\ impResult = "ok" /\ srvDocs > 0 /\ errLog = <<>>) =>
        TargetCollection = SourceCollection

\* Both tasks returned success, a bulk response reported item errors, and
\* the refused documents are missing from the target collection.
C14_DocumentsLost ==
    /\ expResult = "ok"
    /\ impResult = "ok"
    /\ srvDocs = 3
    /\ errLog # <<>>
    /\ TargetCollection # SourceCollection
    /\ TargetCollection \subseteq SourceCollection

\* The import task has returned the error "Data file .. not found".
DataFileNotFound ==
    ipc = "returned" /\ impResult = "err" /\ impErr = OtherError("not_found")

\* C28: after the export task of a collection has returned success, the
\* import task over the files of that run finds a data file and does not
\* fail for a missing file; a collection exported with zero documents is
\* restored with zero batches, and with success unless a log line cannot be
\* written.
C28_ImportFindsDataFile ==
    ipc # "idle" =>
        /\ srcFiles # "none"
        /\ ~DataFileNotFound
        /\ (ipc = "returned" /\ srvDocs = 0)
              => /\ bulkSent = <<>>
                 /\ impResult = "ok" \/ impErr = OtherError("log")

\* The part of C28 that the code keeps: after the successful export of a
\* collection that had documents, the import finds the data file.
C28_NonEmptyExportFindsDataFile ==
    (ipc # "idle" /\ doc_count > 0) => (srcFiles # "none" /\ ~DataFileNotFound)

\* An empty collection was exported with success into a new directory, and
\* the import of that directory has failed: no data file.
C28_EmptyExportNotRestorable ==
    /\ srvDocs = 0
    /\ expResult = "ok"
    /\ ~fileExists
    /\ DataFileNotFound

(***************************************************************************)
(*   Properties of the open-cursor page size (specification SpecScroll)    *)
(***************************************************************************)

\* C15: the page size sent in the open-cursor request is the configured
\* page size, unless the version string starts with "8.3"; then it is the
\* greater of half the configured size (integer division) and 1000, so
\* configured 10000 gives 5000 and configured 1500 gives 1000.
C15_EffectivePageSize ==
    spc = "sent" =>
        LET quirk == /\ Len(es_version) >= 3
                     /\ es_version[1] = "8"
                     /\ es_version[2] = "."
                     /\ es_version[3] = "3"
            half == cfg_scroll_size \div 2
        IN  /\ ~quirk => open_size = cfg_scroll_size
            /\ quirk => open_size = (IF half >= 1000 THEN half ELSE 1000)
            /\ (quirk /\ cfg_scroll_size = 10000) => open_size = 5000
            /\ (quirk /\ cfg_scroll_size = 1500) => open_size = 1000

\* C15 witness: version 8.3.3 and a configured size of 10000: 5000 is sent.
C15_Witness ==
    /\ spc = "sent"
    /\ es_version = <<"8", ".", "3", ".", "3">>
    /\ cfg_scroll_size = 10000
    /\ open_size = 5000

(***************************************************************************)
(*   Properties of the selection of collections (specification SpecDisc)   *)
(***************************************************************************)

\* The collections the run processes, once the selection is made.
Selected == {selected[i] : i \in DOMAIN selected}

\* C16: a collection whose name begins with '.' or is in the skip list is
\* never among the collections a backup run selects, whether the
\* collections are discovered or one is named explicitly.
C16_ReservedNeverSelected ==
    dop = "backup" =>
        \A n \in Selected : n[1] # "." /\ n \notin skip_indices

\* The part of C16 that the code keeps: the discovered list (no collection
\* named explicitly) holds no name that begins with '.' or is skip-listed,
\* whatever the sizes and the threshold.
C16_DiscoveredListFiltered ==
    (dop = "backup" /\ specific_index = <<>>) =>
        /\ \A n \in Selected : n[1] # "." /\ n \notin skip_indices
        /\ \A i \in DOMAIN result : result[i][1] # "." /\ result[i] \notin skip_indices

\* A skip-listed collection that was named explicitly is about to be
\* backed up.
C16_SkipListedSelected ==
    /\ dop = "backup"
    /\ dpc = "loop"
    /\ skip_indices = {Logs}
    /\ selected = <<Logs>>

\* C17: with a threshold of T MB, once the size filter has run, every
\* collection whose reported size in bytes exceeds T * 1024 * 1024 is
\* excluded from the list, every collection whose size does not exceed it
\* is kept, and a collection whose lookup failed or gave no size is kept.
C17_SizeFilterInBytes ==
    (dpc = "sort" /\ max_index_size_mb # -1) =>
        \A n \in Names :
            /\ (sizeOf[n].k = "bytes" /\ sizeOf[n].bytes > max_index_size_mb * 1024 * 1024)
                  => n \notin Range(result)
            /\ (sizeOf[n].k = "bytes" /\ sizeOf[n].bytes <= max_index_size_mb * 1024 * 1024)
                  => n \in Range(result)
            /\ sizeOf[n].k \in {"fail", "nosize"} => n \in Range(result)

\* What the size filter does: it compares whole megabytes (the size in
\* bytes divided by 1024 * 1024, rounded down) with T, and keeps every
\* collection whose lookup failed or gave no size.
C17_SizeFilterInWholeMb ==
    (dpc = "sort" /\ max_index_size_mb # -1) =>
        \A n \in Names :
            /\ (sizeOf[n].k = "bytes" /\ sizeOf[n].bytes \div (1024 * 1024) > max_index_size_mb)
                  => n \notin Range(result)
            /\ (sizeOf[n].k = "bytes" /\ sizeOf[n].bytes \div (1024 * 1024) <= max_index_size_mb)
                  => n \in Range(result)
            /\ sizeOf[n].k \in {"fail", "nosize"} => n \in Range(result)

\* A collection one byte over a threshold of 1 MB was kept.
C17_OverThresholdKept ==
    /\ dpc = "loop"
    /\ max_index_size_mb = 1
    /\ sizeOf[Alpha] = [k |-> "bytes", bytes |-> 1024 * 1024 + 1]
    /\ Alpha \in Selected

\* The run has returned an error and no collection task starts.
AbortedBeforeTasks == dpc = "returned" /\ dResult = "err"
\* The responses to the listing request that are no listing.
NoListing ==
    \/ listing \in {"unreachable", "unreadable", "not_json", "error_object",
                    "scalar", "map_other"}
    \/ listing \in {"map_indices", "map_empty"} /\ dVersion # "8.3"

\* C18: if version detection fails, the listing is unreachable or
\* malformed (no listing at all, or entries without a collection name), or
\* the collection named explicitly does not exist, the run returns an
\* error, not an empty success, and no collection task starts.
C18_SelectionErrorsAbort ==
    /\ (dop = "backup" /\ dVersion = "none") => dpc = "start" \/ AbortedBeforeTasks
    /\ NoListing => AbortedBeforeTasks
    /\ (listing = "array" /\ nameless # {} /\ dpc \in {"returned", "loop"})
          => AbortedBeforeTasks
    /\ (specific_index # <<>> /\ specific_index \notin present
          /\ dpc \notin {"start", "select"}) => AbortedBeforeTasks
    /\ dResult = "err" => dpc = "returned"

\* The part of C18 that the code keeps: a failed version detection, a
\* response that is no listing, an unreadable backup directory and a named
\* collection that does not exist return an error before any task starts.
C18_NoListingAborts ==
    /\ (dop = "backup" /\ dVersion = "none") => dpc = "start" \/ AbortedBeforeTasks
    /\ NoListing => AbortedBeforeTasks
    /\ (specific_index # <<>> /\ specific_index \notin present
          /\ dpc \notin {"start", "select"}) => AbortedBeforeTasks
    /\ dResult = "err" => dpc = "returned"

\* A listing whose only entry has no name ended in an empty success.
C18_NamelessListingSucceeds ==
    /\ dop = "backup"
    /\ listing = "array"
    /\ present = {Alpha}
    /\ nameless = {Alpha}
    /\ dpc = "returned"
    /\ dResult = "ok"

\* The list is in ascending order of name.
Sorted(q) == \A i, j \in DOMAIN q : i < j => Less(q[i], q[j])

\* C23: the list of collections handed to the orchestrator is in
\* lexicographic order of name in both operations, a backup and a restore.
C23_ListSorted ==
    dpc = "loop" => Sorted(selected)

\* The part of C23 that the code keeps: the list of a backup is sorted.
C23_BackupListSorted ==
    (dpc = "loop" /\ dop = "backup") => Sorted(selected)

\* A restore of two backup directories is about to start its tasks with
\* the later name first.
C23_RestoreListUnsorted ==
    /\ dop = "restore"
    /\ dpc = "loop"
    /\ selected = <<Logs, Alpha>>

(***************************************************************************)
(*            Properties of the shared log (specification SpecLog)         *)
(***************************************************************************)

\* The pieces of call n of task t that are in the file.
PiecesOf(t, n) == {j \in DOMAIN logContent :
                     logContent[j].task = t /\ logContent[j].call = n}
\* Task t is inside its call n, writing.
Writing(t, n) == lcalls[t] = n /\ lpc[t] \in {"write_1", "write_2", "flush"}
\* Call n of task t has returned res.
Returned(t, n, res) == n <= Len(lResults[t]) /\ lResults[t][n] = res

\* C22: lines of concurrent tasks never interleave in the log: a task writes
\* only while it holds the log mutex; the pieces of one line lie next to
\* each other in the file, in order; a line that is not whole is the last
\* thing in the file and still being written, or its write failed; and a
\* call that returned success has its whole line in the file.
C22_WholeLines ==
    /\ \A t \in LogTasks :
          lpc[t] \in {"write_1", "write_2", "flush"} <=> logMutex = t
    /\ \A j \in DOMAIN logContent :
         LET p == logContent[j] IN
           /\ p.part = 2 =>
                j > 1 /\ logContent[j - 1] = Piece(p.task, p.call, 1)
           /\ p.part = 1 =>
                \/ j < Len(logContent)
                     /\ logContent[j + 1] = Piece(p.task, p.call, 2)
                \/ j = Len(logContent) /\ Writing(p.task, p.call)
                \/ Returned(p.task, p.call, "err")
    /\ \A t \in LogTasks : \A n \in 1..MaxLogCalls :
         Returned(t, n, "ok") =>
            \E j \in DOMAIN logContent :
               /\ j < Len(logContent)
               /\ logContent[j] = Piece(t, n, 1)
               /\ logContent[j + 1] = Piece(t, n, 2)

\* C22 witness: two tasks are inside log at once: one holds the mutex and
\* is in the middle of its line, the other waits for the mutex.
C22_Witness ==
    \E t, u \in LogTasks :
       /\ t # u
       /\ logMutex = t
       /\ lpc[t] = "write_2"
       /\ logContent = <<Piece(t, 1, 1)>>
       /\ lpc[u] = "lock"

====
